---- MODULE Spec2Model ----
(***************************************************************************)
(* SJJP Requests Portal (src/app.py): the local JSON store, the remote     *)
(* Supabase tables and the operations that move records between them.      *)
(*                                                                         *)
(* Records are functions from field names to values.  A field that a       *)
(* Python dict does not have is a field outside the function's DOMAIN.     *)
(* Scalar values are strings; "null" stands for None / SQL NULL.  The      *)
(* `coaches` field of a school is a sequence of strings.  Quantities:      *)
(* "0", "1", "2", "3" are Python ints, "s1", "s2" are the Python strings   *)
(* '1', '2' (int() parses them), "sx" is a string int() rejects.           *)
(***************************************************************************)
EXTENDS Integers, Sequences, FiniteSets, TLC

VARIABLES supabase,   \* app.py:30-37   TRUE iff a Supabase client is configured
          files,      \* app.py:45-51   local JSON files, by table name
          remote,     \* the remote tables (bootstrap_app.py schema)
          uuid_ctr,   \* number of uuid4() values drawn so far
          session,    \* st.session_state
          pushed,     \* history: per table, the last successful push
          last,       \* history: what the last operation did and returned
          steps       \* handlers run so far after login

vars == <<supabase, files, remote, uuid_ctr, session, pushed, last, steps>>

(***************************************************************************)
(* Bounds                                                                  *)
(***************************************************************************)
MaxFaults == 1      \* remote / file-system calls that may fail in one handler
MaxUuid == 2        \* uuid4() draws in one behaviour
MaxSteps == 2       \* handlers run after login in one behaviour
MaxRows == 2        \* records in a collection given to a normalizer or the gate
MaxWrites == 1      \* write handlers run in one behaviour of the write paths
MaxActs == 3        \* Manage Requests handlers run in one behaviour with staged deletion

(***************************************************************************)
(* Values                                                                  *)
(***************************************************************************)
Null == "null"
\* a local file: present with its parsed content, or absent
File(data) == [exists |-> TRUE, data |-> data]
Missing == [exists |-> FALSE, data |-> <<>>]
NoPush == [ok |-> FALSE]
UuidPool == <<"u1", "u2", "u3", "u4", "u5", "u6">>

LocalTables == <<"users", "schools", "materials", "requests", "stock_kimonos">>
RemoteTables == {"users", "schools", "materials", "requests", "stock_kimonos", "coaches"}

Range(s) == {s[i] : i \in DOMAIN s}

\* dict d with d[k] = v
Put(r, k, v) == [f \in (DOMAIN r) \cup {k} |-> IF f = k THEN v ELSE r[f]]

\* d.get(k, dflt)
Get(r, k, dflt) == IF k \in DOMAIN r THEN r[k] ELSE dflt

\* {k: v for k, v in row.items() if k in cols}
Restrict(r, cols) == [f \in (DOMAIN r) \cap cols |-> r[f]]

\* number of occurrences of x in s
Count(s, x) == Cardinality({i \in DOMAIN s : s[i] = x})

\* the two sequences hold the same rows the same number of times
SameRows(s, t) ==
    /\ Len(s) = Len(t)
    /\ \A x \in Range(s) \cup Range(t) : Count(s, x) = Count(t, x)

(***************************************************************************)
(* int(x) of Python on the quantity values                                 *)
(***************************************************************************)
IntValues == {"0", "1", "2", "3"}
IntParses(v) == v \in IntValues \cup {"s1", "s2"}
IntOf(v) == CASE v \in IntValues -> v
              [] v = "s1" -> "1"
              [] v = "s2" -> "2"
              [] OTHER -> v

\* try: row["quantity"] = int(row["quantity"])  except Exception: pass
CoerceQuantity(r) ==
    IF "quantity" \in DOMAIN r /\ IntParses(r["quantity"])
    THEN [r EXCEPT !["quantity"] = IntOf(@)]
    ELSE r

(***************************************************************************)
(* Table declarations of sync_local_to_supabase / pull_supabase_to_local   *)
(***************************************************************************)
allowed_fields ==
    [users |-> {"ps_number", "password", "credential", "name"},
     schools |-> {"id", "nome", "city", "coaches"},
     materials |-> {"category", "subcategory", "item"},
     requests |-> {"id", "school_id", "category", "material", "quantity",
                   "date", "ps_number", "status"},
     stock_kimonos |-> {"id", "school_id", "project", "type", "size", "quantity"}]

\* variant: stock_kimonos left out of the conflict targets
conflict_targets_NoStock ==
    [users |-> "ps_number", schools |-> "id", requests |-> "id"]

\* variant: materials upserted on its category
conflict_targets_Materials ==
    [users |-> "ps_number", schools |-> "id", requests |-> "id",
     stock_kimonos |-> "id", materials |-> "category"]

conflict_targets ==
    [users |-> "ps_number", schools |-> "id", requests |-> "id",
     stock_kimonos |-> "id"]

\* the key each table is cleared by in replace mode
replace_keys ==
    [users |-> "ps_number", schools |-> "id", materials |-> "category",
     requests |-> "id"]

(***************************************************************************)
(* The remote store.  A table is a sequence of rows, each row total over   *)
(* the table's columns.                                                    *)
(***************************************************************************)
Columns(t) == IF t = "coaches" THEN {"ps_number", "password", "credential"}
              ELSE allowed_fields[t]

\* value of a column an inserted row does not give
ColumnDefault(t, c) ==
    CASE t = "users" /\ c = "credential" -> "Coach"
      [] t = "schools" /\ c = "coaches" -> <<>>
      [] t = "requests" /\ c = "status" -> "Pending"
      [] t = "stock_kimonos" /\ c = "quantity" -> "0"
      [] OTHER -> Null

\* the row stored for `row`, given the stored row `old` it replaces (or none)
StoredRow(t, row, old, hasOld) ==
    [c \in Columns(t) |->
        IF c \in DOMAIN row THEN row[c]
        ELSE IF hasOld THEN old[c]
        ELSE ColumnDefault(t, c)]

\* upsert of one row: with a conflict key the stored row with the same key
\* is replaced in place, otherwise (or without a key) the row is appended
UpsertRow(t, rows, row, key, keyed) ==
    IF keyed /\ \E i \in DOMAIN rows : rows[i][key] = row[key]
    THEN [i \in DOMAIN rows |->
            IF rows[i][key] = row[key] THEN StoredRow(t, row, rows[i], TRUE)
            ELSE rows[i]]
    ELSE Append(rows, StoredRow(t, row, row, FALSE))

\* supabase.table(t).upsert(batch, on_conflict=key).execute()
RECURSIVE UpsertRows(_, _, _, _, _)
UpsertRows(t, rows, batch, key, keyed) ==
    IF batch = <<>> THEN rows
    ELSE UpsertRows(t, UpsertRow(t, rows, Head(batch), key, keyed),
                    Tail(batch), key, keyed)

\* supabase.table(t).delete().neq(key, "").execute()
\* (a NULL key does not satisfy key <> '')
DeleteNeqEmpty(rows, key) ==
    SelectSeq(rows, LAMBDA r : r[key] \in {"", Null})

\* variant: the filter matches no row
DeleteIn_NoMatch(rows, key, ids) == rows

\* supabase.table(t).delete().in_(key, ids).execute()
DeleteIn(rows, key, ids) ==
    SelectSeq(rows, LAMBDA r : r[key] \notin ids)

(***************************************************************************)
(* Local store                                                             *)
(***************************************************************************)
DefaultUsers ==
    <<[ps_number |-> "PS1724", password |-> "PS1724", credential |-> "Admin",
       name |-> "Administrator"]>>

\* ensure_json(path, default): write the default only when the file is absent
ensure_json(fs, t, default_content) ==
    IF ~fs[t].exists THEN [fs EXCEPT ![t] = File(default_content)] ELSE fs

\* the five ensure_json calls every script run starts with
Bootstrap(fs) ==
    LET f1 == ensure_json(fs, "users", DefaultUsers)
        f2 == ensure_json(f1, "schools", <<>>)
        f3 == ensure_json(f2, "materials", <<>>)
        f4 == ensure_json(f3, "requests", <<>>)
    IN ensure_json(f4, "stock_kimonos", <<>>)

\* a file opened with mode "w" whose json.dump has not finished: it exists
\* and its text is not a JSON document
Torn == [exists |-> TRUE, data |-> <<>>, parses |-> FALSE]

\* json.load(f) does not raise
Parses(f) == IF "parses" \in DOMAIN f THEN f.parses ELSE TRUE

\* load_json(path): [] when the file does not exist or json.load raises
load_json(fs, t) ==
    IF ~fs[t].exists \/ ~Parses(fs[t]) THEN <<>> ELSE fs[t].data

\* open(path, "w"): the file is truncated before anything is written
OpenForWrite(fs, t) == [fs EXCEPT ![t] = Torn]

\* variant: the file is not written
save_json_Skip(fs, t, data) == fs

\* variant: the rows the file holds when it is written are kept
save_json_Merge(fs, t, data) ==
    [fs EXCEPT ![t] = File(fs[t].data \o data)]

\* save_json(path, data)
save_json(fs, t, data) == [fs EXCEPT ![t] = File(data)]

\* the store operations of a write path, in the order the code issues them
LocalThenRemote(t, attempted) ==
    IF attempted THEN <<"save_json", "upsert">> ELSE <<"save_json">>

(***************************************************************************)
(* sync_local_to_supabase(force, replace): the push pass                   *)
(***************************************************************************)
\* one row projected to the table's allowed fields
ShapeRow(t, row) ==
    LET shaped_row == Restrict(row, allowed_fields[t])
    IN IF t = "requests" THEN CoerceQuantity(shaped_row) ELSE shaped_row

\* "Shape data to match table schema (drop unexpected fields)"
Shape(t, data) == [i \in DOMAIN data |-> ShapeRow(t, data[i])]

\* the reduced rows mirrored into `coaches`
Mirrored(shaped) ==
    LET withPs == SelectSeq(shaped,
                    LAMBDA r : Get(r, "ps_number", Null) \notin {Null, ""})
    IN [i \in DOMAIN withPs |->
          [ps_number |-> withPs[i]["ps_number"],
           password |-> Get(withPs[i], "password", Null),
           credential |-> Get(withPs[i], "credential", "Coach")]]

Call(t, op, ok) == [table |-> t, op |-> op, ok |-> ok]

\* state of a pass before its first table; first_time_sync is not yet bound
PassStart(fs, rem) ==
    [files |-> fs, remote |-> rem, first_time_sync |-> "unbound",
     total_synced |-> 0, total_skipped |-> 0, total_errors |-> 0,
     calls |-> <<>>, shaped |-> [t \in Range(LocalTables) |-> NoPush]]

\* variant: a failed mirror is counted as an error of the pass
AfterUpsert_MirrorCounts(a, t, shaped, F) ==
    IF a.first_time_sync = "unbound"
    THEN [a EXCEPT !.total_errors = @ + 1]
    ELSE
      LET removeOk == <<t, "remove">> \notin F
          a1 == IF a.first_time_sync = "true"
                THEN [a EXCEPT
                        !.files = IF removeOk THEN [@ EXCEPT ![t] = Missing] ELSE @,
                        !.calls = Append(@, Call(t, "remove", removeOk))]
                ELSE a
          mirrored == Mirrored(shaped)
          mirrorOk == <<t, "mirror">> \notin F
      IN IF t = "users" /\ mirrored # <<>>
         THEN [a1 EXCEPT
                 !.remote = IF mirrorOk
                            THEN [@ EXCEPT !["coaches"] =
                                    UpsertRows("coaches", @, mirrored, "ps_number", TRUE)]
                            ELSE @,
                 !.total_errors = IF mirrorOk THEN @ ELSE @ + 1,
                 !.calls = Append(@, Call("coaches", "upsert", mirrorOk))]
         ELSE a1

\* after a successful upsert: first-sync cleanup, then the users mirror
AfterUpsert(a, t, shaped, F) ==
    IF a.first_time_sync = "unbound"
    THEN \* `if first_time_sync:` raises NameError, caught by the outer except
         [a EXCEPT !.total_errors = @ + 1]
    ELSE
      LET removeOk == <<t, "remove">> \notin F
          a1 == IF a.first_time_sync = "true"
                THEN [a EXCEPT
                        !.files = IF removeOk THEN [@ EXCEPT ![t] = Missing] ELSE @,
                        !.calls = Append(@, Call(t, "remove", removeOk))]
                ELSE a
          mirrored == Mirrored(shaped)
          mirrorOk == <<t, "mirror">> \notin F
      IN IF t = "users" /\ mirrored # <<>>
         THEN [a1 EXCEPT
                 !.remote = IF mirrorOk
                            THEN [@ EXCEPT !["coaches"] =
                                    UpsertRows("coaches", @, mirrored, "ps_number", TRUE)]
                            ELSE @,
                 !.calls = Append(@, Call("coaches", "upsert", mirrorOk))]
         ELSE a1

\* the body of the loop for a table whose check did not end in `continue`
PushBody(a, t, force, replace, F) ==
    LET shaped == Shape(t, a.files[t].data)
        clear == replace /\ t \in DOMAIN replace_keys
        clearOk == <<t, "clear">> \notin F
        a1 == IF clear
              THEN [a EXCEPT
                      !.remote = IF clearOk
                                 THEN [@ EXCEPT ![t] = DeleteNeqEmpty(@, replace_keys[t])]
                                 ELSE @,
                      !.calls = Append(@, Call(t, "delete", clearOk))]
              ELSE a
        keyed == t \in DOMAIN conflict_targets
        key == IF keyed THEN conflict_targets[t] ELSE Null
        upsertOk == <<t, "upsert">> \notin F
    IN IF upsertOk
       THEN AfterUpsert(
              [a1 EXCEPT
                 !.remote = [@ EXCEPT ![t] = UpsertRows(t, @, shaped, key, keyed)],
                 !.calls = Append(@, Call(t, "upsert", TRUE)),
                 !.shaped = [@ EXCEPT ![t] = [ok |-> TRUE, rows |-> shaped]],
                 !.total_synced = @ + 1],
              t, shaped, F)
       ELSE [a1 EXCEPT !.calls = Append(@, Call(t, "upsert", FALSE)),
                       !.total_errors = @ + 1]

\* variant: an existing remote row does not end the iteration
PushTable_NoSkip(a, t, force, replace, F) ==
    IF ~a.files[t].exists
    THEN a
    ELSE PushBody([a EXCEPT !.calls = Append(@, Call(t, "select", TRUE)),
                            !.first_time_sync = "false"],
                  t, force, replace, F)

\* one iteration of `for table, filename in TABLES.items()`
PushTable(a, t, force, replace, F) ==
    IF ~a.files[t].exists
    THEN a      \* "<file> not found": continue
    ELSE
      LET checkOk == <<t, "check">> \notin F
          existing_count == IF Len(a.remote[t]) > 0 THEN 1 ELSE 0
          a1 == [a EXCEPT
                   !.calls = Append(@, Call(t, "select", checkOk)),
                   !.first_time_sync =
                      IF ~checkOk THEN @
                      ELSE IF existing_count = 0 /\ ~force /\ ~replace
                           THEN "true" ELSE "false"]
      IN IF checkOk /\ ~force /\ existing_count > 0
         THEN [a1 EXCEPT !.total_skipped = @ + 1]
         ELSE PushBody(a1, t, force, replace, F)

\* variant: the first table that fails ends the loop
RECURSIVE PushPass_Abort(_, _, _, _, _)
PushPass_Abort(a, i, force, replace, F) ==
    IF i > Len(LocalTables) \/ a.total_errors > 0 THEN a
    ELSE PushPass_Abort(PushTable(a, LocalTables[i], force, replace, F),
                        i + 1, force, replace, F)

RECURSIVE PushPass(_, _, _, _, _)
PushPass(a, i, force, replace, F) ==
    IF i > Len(LocalTables) THEN a
    ELSE PushPass(PushTable(a, LocalTables[i], force, replace, F),
                  i + 1, force, replace, F)

\* remote and file-system calls of a push pass that may raise
\* (calls on the other tables succeed)
FaultTables == {"users", "schools", "requests"}

PushPoints ==
    {<<t, op>> : t \in FaultTables, op \in {"check", "clear", "upsert", "remove"}}
        \cup {<<"users", "mirror">>}

RECURSIVE SetsUpTo(_, _)
SetsUpTo(points, k) ==
    IF k = 0 THEN {{}}
    ELSE LET smaller == SetsUpTo(points, k - 1)
         IN smaller \cup {S \cup {p} : S \in smaller, p \in points}

\* the sets of calls that fail in one handler
FaultSets(points) == SetsUpTo(points, MaxFaults)

\* the whole function; show_summary is reached once, after the loop
sync_local_to_supabase(fs, rem, force, replace, F) ==
    LET a == PushPass(PassStart(fs, rem), 1, force, replace, F)
    IN [files |-> a.files, remote |-> a.remote, calls |-> a.calls,
        shaped |-> a.shaped, synced |-> a.total_synced,
        skipped |-> a.total_skipped, errors |-> a.total_errors, summaries |-> 1]

(***************************************************************************)
(* pull_supabase_to_local()                                                *)
(***************************************************************************)
\* variant: the quantity column is not written back
PullRow_NoQuantity(t, r) ==
    [k \in allowed_fields[t] \ {"quantity"} |-> Get(r, k, Null)]

\* {k: r.get(k) for k in cols}
PullRow(t, r) == [k \in allowed_fields[t] |-> Get(r, k, Null)]

\* variant: the pulled rows are added to the rows already in the local file
PullTable_Merge(a, t, F) ==
    IF <<t, "fetch">> \in F
    THEN [a EXCEPT !.errors = @ + 1, !.calls = Append(@, Call(t, "select", FALSE))]
    ELSE LET rows == a.remote[t]
             shaped == [i \in DOMAIN rows |-> PullRow(t, rows[i])]
         IN [a EXCEPT !.files = save_json(@, t, load_json(@, t) \o shaped),
                      !.pulled = @ + 1,
                      !.calls = Append(@, Call(t, "select", TRUE))]

\* one iteration of the loop of pull_supabase_to_local
PullTable(a, t, F) ==
    IF <<t, "fetch">> \in F
    THEN [a EXCEPT !.errors = @ + 1, !.calls = Append(@, Call(t, "select", FALSE))]
    ELSE LET rows == a.remote[t]
             shaped == [i \in DOMAIN rows |-> PullRow(t, rows[i])]
         IN [a EXCEPT !.files = save_json(@, t, shaped),
                      !.pulled = @ + 1,
                      !.calls = Append(@, Call(t, "select", TRUE))]

RECURSIVE PullPass(_, _, _)
PullPass(a, i, F) ==
    IF i > Len(LocalTables) THEN a
    ELSE PullPass(PullTable(a, LocalTables[i], F), i + 1, F)

PullPoints == {<<t, "fetch">> : t \in FaultTables}

pull_supabase_to_local(fs, rem, F) ==
    PullPass([files |-> fs, remote |-> rem, pulled |-> 0, errors |-> 0,
              calls |-> <<>>], 1, F)

(***************************************************************************)
(* Login                                                                   *)
(***************************************************************************)
NoUser == [ps_number |-> "", credential |-> "", name |-> ""]

Matches(u, ps_number, password) ==
    /\ Get(u, "ps_number", Null) = ps_number
    /\ Get(u, "password", "") = password

\* authenticate(ps_number, password): the first matching user, or None
authenticate(fs, ps_number, password) ==
    LET users == load_json(fs, "users")
        hits == {i \in DOMAIN users : Matches(users[i], ps_number, password)}
    IN IF hits = {} THEN NoUser
       ELSE LET u == users[CHOOSE i \in hits : \A j \in hits : i <= j]
            IN [ps_number |-> u["ps_number"],
                credential |-> Get(u, "credential", "Coach"),
                name |-> Get(u, "name", u["ps_number"])]

(***************************************************************************)
(* Seed data of the local store                                            *)
(***************************************************************************)
SeedUsers ==
    <<[ps_number |-> "PS1724", password |-> "PS1724", credential |-> "Admin",
       name |-> "Administrator"],
      [ps_number |-> "PS1", password |-> "pw1"]>>

SeedSchools ==
    <<[id |-> "s1", nome |-> "A", city |-> "X", coaches |-> <<"PS1">>,
       Delete |-> "False"],
      [id |-> "s2", nome |-> "B"]>>

SeedMaterials ==
    <<[category |-> "c1", subcategory |-> "sc", item |-> "it"]>>

SeedRequests ==
    <<[id |-> "r2", school_id |-> "s2", category |-> "c1", material |-> "sc it",
       quantity |-> "s2", date |-> "d2", ps_number |-> "PS1724",
       status |-> "Approved"],
      [id |-> "r1", school_id |-> "s1", category |-> "c1", material |-> "sc it",
       quantity |-> "1", date |-> "d1", ps_number |-> "PS1", status |-> "Pending"],
      [id |-> "r3", school_id |-> "s1", category |-> "c1", material |-> "sc it",
       quantity |-> "2", date |-> "d3", ps_number |-> "PS1", status |-> "Rejected"]>>

SeedStock ==
    <<[id |-> "k1", school_id |-> "s1", project |-> "MOE", type |-> "A1",
       size |-> "C0", quantity |-> "2"]>>

SeedFiles ==
    [users |-> File(SeedUsers), schools |-> File(SeedSchools),
     materials |-> File(SeedMaterials), requests |-> File(SeedRequests),
     stock_kimonos |-> File(SeedStock)]

EmptyRemote == [t \in RemoteTables |-> <<>>]
NoPushes == [t \in Range(LocalTables) |-> NoPush]
Credentials == {<<"PS1724", "PS1724">>, <<"PS1", "pw1">>, <<"PS1", "bad">>}

Init ==
    /\ supabase \in BOOLEAN
    /\ files = SeedFiles
    /\ remote = EmptyRemote
    /\ uuid_ctr = 0
    /\ session = [user |-> NoUser]
    /\ pushed = NoPushes
    /\ last = [op |-> "init"]
    /\ steps = 0

\* require_login(): the login form
Login ==
    /\ session.user = NoUser
    /\ \E c \in Credentials :
         LET fs == Bootstrap(files)
             u == authenticate(fs, c[1], c[2])
         IN /\ files' = fs
            /\ session' = [session EXCEPT !.user = u]
            /\ last' = [op |-> "login", ps_number |-> c[1], password |-> c[2],
                        ok |-> u # NoUser]
    /\ UNCHANGED <<supabase, remote, uuid_ctr, pushed, steps>>

(***************************************************************************)
(* Data Sync section (Admin only)                                          *)
(***************************************************************************)
\* variant: the replace checkbox is offered whatever force is
ReplaceCheckbox_Always(force) == BOOLEAN

\* the "Replace remote with local" checkbox is only offered when force is set
ReplaceCheckbox(force) == IF force THEN BOOLEAN ELSE {FALSE}

\* history of successful pushes after a pass
PushedAfter(res, rem, force, replace) ==
    [t \in Range(LocalTables) |->
        IF res.shaped[t].ok
        THEN [ok |-> TRUE, rows |-> res.shaped[t].rows, after |-> res.remote[t],
              force |-> force, replace |-> replace,
              clean |-> Call(t, "delete", FALSE) \notin Range(res.calls)]
        ELSE IF res.remote[t] # rem[t] THEN NoPush
        ELSE pushed[t]]

RunSync(force, replace) ==
    /\ session.user.credential = "Admin"
    /\ steps < MaxSteps
    /\ steps' = steps + 1
    /\ LET fs == Bootstrap(files)
       IN IF ~supabase
          THEN /\ files' = fs
               /\ last' = [op |-> "push", configured |-> FALSE,
                           force |-> force, replace |-> replace]
               /\ UNCHANGED <<remote, pushed>>
          ELSE \E F \in FaultSets(PushPoints) :
                 LET res == sync_local_to_supabase(fs, remote, force, replace, F)
                 IN /\ files' = res.files
                    /\ remote' = res.remote
                    /\ pushed' = PushedAfter(res, remote, force, replace)
                    /\ last' = [op |-> "push",
                                configured |-> TRUE,
                                force |-> force, replace |-> replace,
                                calls |-> res.calls, synced |-> res.synced,
                                skipped |-> res.skipped, errors |-> res.errors,
                                summaries |-> res.summaries,
                                pre_files |-> fs, pre_remote |-> remote,
                                pre_pushed |-> pushed]
    /\ UNCHANGED <<supabase, uuid_ctr, session>>

\* "Sync Local JSONs -> Supabase" with the two checkboxes
SyncButton ==
    \E force \in BOOLEAN : \E replace \in ReplaceCheckbox(force) :
        RunSync(force, replace)

\* "Force Upsert All"
ForceUpsertAll == RunSync(TRUE, FALSE)

\* "Replace Remote With Local"
ReplaceRemoteWithLocal == RunSync(TRUE, TRUE)

\* variant: the pull is offered to every logged-in user
PullButton_AnyUser ==
    /\ session.user # NoUser
    /\ steps < MaxSteps
    /\ steps' = steps + 1
    /\ LET fs == Bootstrap(files)
       IN IF ~supabase
          THEN /\ files' = fs
               /\ last' = [op |-> "pull", configured |-> FALSE]
          ELSE \E F \in FaultSets(PullPoints) :
                 LET res == pull_supabase_to_local(fs, remote, F)
                 IN /\ files' = res.files
                    /\ last' = [op |-> "pull", configured |-> TRUE,
                                calls |-> res.calls, pulled |-> res.pulled,
                                errors |-> res.errors,
                                pre_files |-> fs, pre_pushed |-> pushed]
    /\ UNCHANGED <<supabase, remote, uuid_ctr, session, pushed>>

\* "Pull From Supabase -> Local"
PullButton ==
    /\ session.user.credential = "Admin"
    /\ steps < MaxSteps
    /\ steps' = steps + 1
    /\ LET fs == Bootstrap(files)
       IN IF ~supabase
          THEN /\ files' = fs
               /\ last' = [op |-> "pull", configured |-> FALSE]
          ELSE \E F \in FaultSets(PullPoints) :
                 LET res == pull_supabase_to_local(fs, remote, F)
                 IN /\ files' = res.files
                    /\ last' = [op |-> "pull", configured |-> TRUE,
                                calls |-> res.calls, pulled |-> res.pulled,
                                errors |-> res.errors,
                                pre_files |-> fs, pre_pushed |-> pushed]
    /\ UNCHANGED <<supabase, remote, uuid_ctr, session, pushed>>

Next ==
    \/ Login
    \/ SyncButton
    \/ ForceUpsertAll
    \/ ReplaceRemoteWithLocal
    \/ PullButton

Spec == Init /\ [][Next]_vars

(***************************************************************************)
(* Requests: normalizer, read path and write path                          *)
(***************************************************************************)
Uuid(n) == UuidPool[n]

\* str(x)
Str(v) == IF v = Null THEN "None" ELSE v

\* x.strip() on the identifier values
Strip(v) == CASE v = " r1 " -> "r1"
              [] v = " " -> ""
              [] OTHER -> v

\* x.lower() on the status values
Lower(v) == CASE v = "Pending" -> "pending"
              [] v = "Approved" -> "approved"
              [] v = "Rejected" -> "rejected"
              [] v = "Processed" -> "processed"
              [] OTHER -> v

\* d.setdefault(k, v)
SetDefault(r, k, v) == IF k \in DOMAIN r THEN r ELSE Put(r, k, v)

\* a dict as the sequence of its <<key, value>> items in insertion order
DictPut(d, k, v) ==
    IF \E i \in DOMAIN d : d[i][1] = k
    THEN [i \in DOMAIN d |-> IF d[i][1] = k THEN <<k, v>> ELSE d[i]]
    ELSE Append(d, <<k, v>>)

DictHas(d, k) == \E i \in DOMAIN d : d[i][1] = k
DictGet(d, k) == d[CHOOSE i \in DOMAIN d : d[i][1] = k][2]
DictValues(d) == [i \in DOMAIN d |-> d[i][2]]

\* number of rows of rows[1..n] that lack an "id"
RECURSIVE MissingIdsUpTo(_, _)
MissingIdsUpTo(rows, n) ==
    IF n = 0 THEN 0
    ELSE MissingIdsUpTo(rows, n - 1) + (IF "id" \in DOMAIN rows[n] THEN 0 ELSE 1)

\* variant: every row without an id gets the same generated id
NormalizeRequest_SameId(rows, i, ctr) ==
    LET r == rows[i]
        r1 == IF "id" \in DOMAIN r THEN r ELSE Put(r, "id", Uuid(ctr + 1))
        r2 == SetDefault(r1, "status", "Pending")
    IN SetDefault(r2, "ps_number", "unknown")

\* the loop body of ensure_request_id_and_defaults for rows[i]
NormalizeRequest(rows, i, ctr) ==
    LET r == rows[i]
        r1 == IF "id" \in DOMAIN r THEN r
              ELSE Put(r, "id", Uuid(ctr + MissingIdsUpTo(rows, i)))
        r2 == SetDefault(r1, "status", "Pending")
    IN SetDefault(r2, "ps_number", "unknown")

\* ensure_request_id_and_defaults(rows): the rows, and the file written
\* when a row changed
ensure_request_id_and_defaults(fs, rows, ctr) ==
    LET out == [i \in DOMAIN rows |-> NormalizeRequest(rows, i, ctr)]
        changed == \E i \in DOMAIN rows :
                      {"id", "status", "ps_number"} \ DOMAIN rows[i] # {}
    IN [rows |-> out,
        changed |-> changed,
        files |-> IF changed THEN save_json(fs, "requests", out) ELSE fs,
        ctr |-> ctr + MissingIdsUpTo(rows, Len(rows))]

\* variant: no fallback to the local file
load_requests_data_NoFallback(fs, rem, sup, ctr, readFails) ==
    LET readOk == sup /\ ~readFails
        fetched == IF readOk THEN rem["requests"] ELSE <<>>
        fs1 == IF readOk THEN save_json(fs, "requests", fetched) ELSE fs
        norm == ensure_request_id_and_defaults(fs1, fetched, ctr)
    IN [rows |-> norm.rows, source |-> "supabase",
        error |-> IF sup /\ readFails THEN "exc" ELSE Null,
        files |-> norm.files, ctr |-> norm.ctr]

\* load_requests_data(): remote rows when the read succeeds and returns
\* rows, else the local file; the normalizer runs on the result
load_requests_data(fs, rem, sup, ctr, readFails) ==
    LET readOk == sup /\ ~readFails
        fetched == IF readOk THEN rem["requests"] ELSE <<>>
        fs1 == IF readOk THEN save_json(fs, "requests", fetched) ELSE fs
        rows == IF fetched # <<>> THEN fetched ELSE load_json(fs1, "requests")
        source == IF fetched # <<>> THEN "supabase" ELSE "local"
        norm == ensure_request_id_and_defaults(fs1, rows, ctr)
    IN [rows |-> norm.rows, source |-> source,
        error |-> IF sup /\ readFails THEN "exc" ELSE Null,
        files |-> norm.files, ctr |-> norm.ctr]

\* by_id of persist_requests: existing rows keyed by their stripped id
RECURSIVE ExistingById(_, _)
ExistingById(existing, n) ==
    IF n = 0 THEN <<>>
    ELSE LET d == ExistingById(existing, n - 1)
             rid == Strip(Str(Get(existing[n], "id", "")))
         IN IF rid # "" THEN DictPut(d, rid, existing[n]) ELSE d

\* variant: the item is stored without the status and ps_number defaults
PersistItem_NoDefaults(rec, fresh) ==
    LET given == Get(rec, "id", Null)
        rid0 == Strip(IF given = Null THEN "" ELSE given)
        rid == IF rid0 = "" THEN fresh ELSE rid0
    IN CoerceQuantity(Put(rec, "id", rid))

\* the stored item for one passed record
PersistItem(rec, fresh) ==
    LET given == Get(rec, "id", Null)
        rid0 == Strip(IF given = Null THEN "" ELSE given)
        rid == IF rid0 = "" THEN fresh ELSE rid0
        i1 == Put(rec, "id", rid)
        i2 == SetDefault(i1, "status", "Pending")
        i3 == SetDefault(i2, "ps_number", "unknown")
    IN CoerceQuantity(i3)

NeedsId(rec) ==
    LET given == Get(rec, "id", Null)
    IN Strip(IF given = Null THEN "" ELSE given) = ""

PayloadRow(item) ==
    [k \in allowed_fields["requests"] |-> Get(item, k, Null)]

RECURSIVE PersistLoop(_, _, _)
PersistLoop(records, n, start) ==
    IF n = 0 THEN start
    ELSE LET a == PersistLoop(records, n - 1, start)
             rec == records[n]
             ctr1 == IF NeedsId(rec) THEN a.ctr + 1 ELSE a.ctr
             item == PersistItem(rec, Uuid(IF NeedsId(rec) THEN ctr1 ELSE 1))
         IN [by_id |-> DictPut(a.by_id, item["id"], item),
             payload |-> Append(a.payload, PayloadRow(item)),
             saved |-> a.saved + 1,
             ctr |-> ctr1]

\* the `error` persist_requests returns
persist_error(sup, upsertFails) ==
    IF sup /\ upsertFails THEN "exc" ELSE Null

\* persist_requests(records)
persist_requests(fs, rem, sup, records, ctr, upsertFails) ==
    IF records = <<>>
    THEN [files |-> fs, remote |-> rem, ctr |-> ctr, payload |-> <<>>,
          written |-> load_json(fs, "requests"),
          result |-> [saved |-> 0, synced |-> 0, error |-> Null]]
    ELSE
      LET existing == load_json(fs, "requests")
          a == PersistLoop(records, Len(records),
                 [by_id |-> ExistingById(existing, Len(existing)),
                  payload |-> <<>>, saved |-> 0, ctr |-> ctr])
          fs1 == save_json(fs, "requests", DictValues(a.by_id))
          upsertOk == sup /\ ~upsertFails
      IN [files |-> fs1,
          remote |-> IF upsertOk
                     THEN [rem EXCEPT !["requests"] =
                             UpsertRows("requests", @, a.payload, "id", TRUE)]
                     ELSE rem,
          ctr |-> a.ctr,
          payload |-> a.payload,
          written |-> DictValues(a.by_id),
          result |-> [saved |-> a.saved,
                      synced |-> IF upsertOk THEN Len(a.payload) ELSE 0,
                      error |-> persist_error(sup, upsertFails)]]

(***************************************************************************)
(* Authorization gate                                                      *)
(***************************************************************************)
\* variant: every user is given every school
list_user_schools_All(u, schools) == schools

\* list_user_schools(user, schools)
list_user_schools(u, schools) ==
    IF u["credential"] = "Admin" THEN schools
    ELSE SelectSeq(schools,
           LAMBDA sc : u["ps_number"] \in Range(Get(sc, "coaches", <<>>)))

Truthy(v) == v \notin {Null, ""}

(***************************************************************************)
(* Manage Requests                                                         *)
(***************************************************************************)
NaN == "nan"
NoEdit == [idx |-> 0, key |-> "", value |-> ""]

IsPending(r) == Lower(Str(Get(r, "status", ""))) = "pending"

\* what the section shows: the loaded rows, the visible rows under the
\* school filter `sel`, and their split into editable and read-only rows
ManageView(fs, rem, sup, ctr, u, readFails, sel) ==
    LET ld == load_requests_data(fs, rem, sup, ctr, readFails)
        all_schools == load_json(ld.files, "schools")
        my_schools == list_user_schools(u, all_schools)
        my_school_ids == {Str(my_schools[i]["id"]) :
                            i \in {j \in DOMAIN my_schools :
                                     Truthy(Get(my_schools[j], "id", Null))}}
        visible0 == IF u["credential"] = "Admin" THEN ld.rows
                    ELSE SelectSeq(ld.rows,
                           LAMBDA r : Str(Get(r, "school_id", "")) \in my_school_ids)
        visible == IF sel = "All schools" THEN visible0
                   ELSE SelectSeq(visible0,
                          LAMBDA r : Str(Get(r, "school_id", "")) = sel)
    IN [rows |-> ld.rows, files |-> ld.files, ctr |-> ld.ctr,
        source |-> ld.source, error |-> ld.error,
        school_options |-> {"All schools"} \cup
            {Str(visible0[i]["school_id"]) :
               i \in {j \in DOMAIN visible0 :
                        Truthy(Get(visible0[j], "school_id", Null))}},
        visible |-> visible,
        pending |-> SelectSeq(visible, IsPending),
        finalized |-> SelectSeq(visible, LAMBDA r : ~IsPending(r))]

\* variant: the date column of the grid is read back as well
GridKeys_WithDate(pending, u) ==
    (UNION {DOMAIN pending[i] : i \in DOMAIN pending})
       \cap ({"category", "material", "quantity", "date"}
               \cup (IF u["credential"] = "Admin" THEN {"status"} ELSE {}))

\* the columns of the editable grid that Save Changes reads back
GridKeys(pending, u) ==
    (UNION {DOMAIN pending[i] : i \in DOMAIN pending})
       \cap ({"category", "material", "quantity"}
               \cup (IF u["credential"] = "Admin" THEN {"status"} ELSE {}))

\* the row `er` of the edited grid at index idx, restricted to those columns
EditedRow(pending, idx, u, edit) ==
    [k \in GridKeys(pending, u) |->
        IF edit.idx = idx /\ edit.key = k THEN edit.value
        ELSE Get(pending[idx], k, NaN)]

\* variant: the grid index is looked up in the visible rows
TargetId_Visible(pending, visible, idx) == visible[idx]["id"]

\* rid = pending[idx]["id"]
TargetId(pending, visible, idx) == pending[idx]["id"]

\* by_id = {r["id"]: r for r in rows}
RECURSIVE RowsById(_, _)
RowsById(rows, n) ==
    IF n = 0 THEN <<>>
    ELSE DictPut(RowsById(rows, n - 1), rows[n]["id"], rows[n])

\* row with the grid values written over it
Overwrite(r, er) == [k \in DOMAIN r \cup DOMAIN er |->
                        IF k \in DOMAIN er THEN er[k] ELSE r[k]]

RECURSIVE ApplyEdits(_, _, _, _, _, _)
ApplyEdits(by_id, pending, visible, u, edit, n) ==
    IF n = 0 THEN [by_id |-> by_id, updated_ids |-> {}]
    ELSE LET a == ApplyEdits(by_id, pending, visible, u, edit, n - 1)
             rid == TargetId(pending, visible, n)
         IN IF DictHas(a.by_id, rid)
            THEN [by_id |-> DictPut(a.by_id, rid,
                              Overwrite(DictGet(a.by_id, rid),
                                        EditedRow(pending, n, u, edit))),
                  updated_ids |-> a.updated_ids \cup {rid}]
            ELSE a

\* the possible single-cell edits of the grid
Edits(pending) ==
    {NoEdit} \cup
    {[idx |-> i, key |-> "quantity", value |-> "3"] : i \in DOMAIN pending} \cup
    {[idx |-> i, key |-> "status", value |-> "Approved"] : i \in DOMAIN pending} \cup
    {[idx |-> i, key |-> "date", value |-> "d0"] : i \in DOMAIN pending}

\* "Save Changes"
SaveChanges ==
    /\ session.user # NoUser
    /\ steps < MaxSteps
    /\ steps' = steps + 1
    /\ \E readFails \in BOOLEAN, upsertFails \in BOOLEAN :
       \E u \in {session.user}, fs0 \in {Bootstrap(files)} :
       \E all \in {ManageView(fs0, remote, supabase, uuid_ctr, u, readFails,
                              "All schools")} :
       \E sel \in all.school_options :
       \E v \in {ManageView(fs0, remote, supabase, uuid_ctr, u, readFails, sel)} :
         /\ v.visible # <<>>
         /\ v.ctr <= MaxUuid
         /\ \E edit \in Edits(v.pending) :
            \E a \in {ApplyEdits(RowsById(v.rows, Len(v.rows)), v.pending,
                                 v.visible, u, edit, Len(v.pending))} :
            \E out \in {DictValues(a.by_id)} :
            \E attempt \in {supabase /\ a.updated_ids # {}} :
            \E payload \in {Shape("requests",
                              SelectSeq(out, LAMBDA r : r["id"] \in a.updated_ids))} :
              /\ files' = save_json(v.files, "requests", out)
              /\ remote' = IF attempt /\ ~upsertFails
                           THEN [remote EXCEPT !["requests"] =
                                   UpsertRows("requests", @, payload, "id", TRUE)]
                           ELSE remote
              /\ pushed' = IF attempt /\ ~upsertFails
                           THEN [pushed EXCEPT !["requests"] = NoPush]
                           ELSE pushed
              /\ uuid_ctr' = v.ctr
              /\ last' = [op |-> "save_changes", user |-> u,
                          rows |-> v.rows, visible |-> v.visible,
                          pending |-> v.pending,
                          finalized |-> v.finalized,
                          edit |-> edit,
                          updated |-> Cardinality(a.updated_ids),
                          synced |-> Cardinality(a.updated_ids),
                          attempted |-> attempt,
                          upsert_ok |-> attempt /\ ~upsertFails,
                          payload |-> payload,
                          table |-> "requests", written |-> out,
                          order |-> LocalThenRemote("requests", attempt),
                          pre_files |-> fs0, loaded_files |-> v.files,
                          pre_remote |-> remote]
    /\ UNCHANGED <<supabase, session>>

SeededRemote ==
    [EmptyRemote EXCEPT !["requests"] =
        UpsertRows("requests", <<>>, Shape("requests", SeedRequests), "id", TRUE)]

Admin == authenticate(SeedFiles, "PS1724", "PS1724")
Coach == authenticate(SeedFiles, "PS1", "pw1")

InitManage ==
    /\ supabase \in BOOLEAN
    /\ files = SeedFiles
    /\ remote \in {EmptyRemote, SeededRemote}
    /\ uuid_ctr = 0
    /\ session \in {[user |-> Admin], [user |-> Coach]}
    /\ pushed = NoPushes
    /\ last = [op |-> "init"]
    /\ steps = 0

NextManage == SaveChanges

SpecManage == InitManage /\ [][NextManage]_vars

(***************************************************************************)
(* persist_requests([r]) on its own                                        *)
(***************************************************************************)
NewRequest ==
    [school_id |-> "s1", category |-> "c1", material |-> "sc it",
     quantity |-> "s2", date |-> "d9", ps_number |-> "PS1", status |-> "Pending"]

PersistInputs ==
    {Put(NewRequest, "id", "r9"),
     [NewRequest EXCEPT !["quantity"] = "x"],
     Put(NewRequest, "id", ""),
     Put(NewRequest, "id", Null),
     Put([NewRequest EXCEPT !["quantity"] = "3"], "id", "r1"),
     Put(NewRequest, "id", " r1 "),
     [id |-> "r3", status |-> "Approved"],
     [school_id |-> "s2", quantity |-> "1"]}

LegacyRequests ==
    <<[id |-> " r1 ", school_id |-> "s1", quantity |-> "1"],
      [school_id |-> "s2", status |-> "Approved"]>>

RequestFiles ==
    {[SeedFiles EXCEPT !["requests"] = File(rows)] :
        rows \in {SeedRequests, LegacyRequests, <<>>}}
      \cup {[SeedFiles EXCEPT !["requests"] = Missing]}

\* the identifier persist_requests stores the record under
PersistId(rec, ctr) == IF NeedsId(rec) THEN Uuid(ctr + 1) ELSE Strip(rec["id"])

PersistCall ==
    /\ steps < MaxSteps
    /\ uuid_ctr < MaxUuid
    /\ steps' = steps + 1
    /\ \E rec \in PersistInputs, upsertFails \in BOOLEAN :
       \E fs0 \in {Bootstrap(files)} :
       \E res \in {persist_requests(fs0, remote, supabase, <<rec>>, uuid_ctr,
                                    upsertFails)} :
            /\ files' = res.files
            /\ remote' = res.remote
            /\ uuid_ctr' = res.ctr
            /\ last' = [op |-> "persist", record |-> rec,
                        rid |-> PersistId(rec, uuid_ctr),
                        configured |-> supabase,
                        upsert_raised |-> supabase /\ upsertFails,
                        result |-> res.result, payload |-> res.payload,
                        table |-> "requests", written |-> res.written,
                        order |-> LocalThenRemote("requests", supabase),
                        attempted |-> supabase,
                        upsert_ok |-> supabase /\ ~upsertFails,
                        pre_files |-> fs0, pre_remote |-> remote]
    /\ UNCHANGED <<supabase, session, pushed>>

InitPersist ==
    /\ supabase \in BOOLEAN
    /\ files \in RequestFiles
    /\ remote \in {EmptyRemote, SeededRemote}
    /\ uuid_ctr = 0
    /\ session = [user |-> Coach]
    /\ pushed = NoPushes
    /\ last = [op |-> "init"]
    /\ steps = 0

NextPersist == PersistCall

SpecPersist == InitPersist /\ [][NextPersist]_vars

(***************************************************************************)
(* Identity and defaults normalizers on their own                          *)
(***************************************************************************)
\* x.strip().upper() on the project labels
StripUpper(v) == CASE v = " moe " -> "MOE"
                   [] v = "ese" -> "ESE"
                   [] OTHER -> v

\* the loop body of ensure_stock_id_and_defaults for rows[i]
NormalizeStock(rows, i, ctr) ==
    LET r == rows[i]
        r1 == IF "id" \in DOMAIN r THEN r
              ELSE Put(r, "id", Uuid(ctr + MissingIdsUpTo(rows, i)))
        r2 == IF "quantity" \notin DOMAIN r1 THEN Put(r1, "quantity", "0")
              ELSE IF IntParses(r1["quantity"])
                   THEN [r1 EXCEPT !["quantity"] = IntOf(@)]
                   ELSE [r1 EXCEPT !["quantity"] = "0"]
    IN IF "project" \in DOMAIN r2 /\ r2["project"] # Null
       THEN [r2 EXCEPT !["project"] = StripUpper(@)]
       ELSE r2

\* ensure_stock_id_and_defaults(rows)
ensure_stock_id_and_defaults(fs, rows, ctr) ==
    LET out == [i \in DOMAIN rows |-> NormalizeStock(rows, i, ctr)]
        changed == \E i \in DOMAIN rows :
                      \/ "id" \notin DOMAIN rows[i]
                      \/ "quantity" \notin DOMAIN rows[i]
                      \/ ~IntParses(rows[i]["quantity"])
    IN [rows |-> out,
        changed |-> changed,
        files |-> IF changed THEN save_json(fs, "stock_kimonos", out) ELSE fs,
        ctr |-> ctr + MissingIdsUpTo(rows, Len(rows))]

\* sequences over S of length at most n
RECURSIVE SeqsUpTo(_, _)
SeqsUpTo(S, n) ==
    IF n = 0 THEN {<<>>}
    ELSE LET T == SeqsUpTo(S, n - 1)
         IN T \cup {Append(t, x) : t \in T, x \in S}

\* the identifiers that are present are pairwise distinct
DistinctIds(rows) ==
    \A i, j \in DOMAIN rows :
       (i # j /\ "id" \in DOMAIN rows[i] /\ "id" \in DOMAIN rows[j])
          => rows[i]["id"] # rows[j]["id"]

RequestRecords ==
    {SeedRequests[1],
     [id |-> "r7", school_id |-> "s1", quantity |-> "1"],
     [school_id |-> "s1", status |-> "Approved", ps_number |-> "PS1"],
     [school_id |-> "s2", quantity |-> "x"]}

StockRecords ==
    {[id |-> "k1", school_id |-> "s1", project |-> "MOE", type |-> "A1",
      size |-> "C0", quantity |-> "2"],
     [id |-> "k2", school_id |-> "s1", project |-> " moe ", quantity |-> "s2"],
     [school_id |-> "s2", project |-> "ese", quantity |-> "x"],
     [school_id |-> "s2", project |-> Null]}

RequestCollections ==
    {rows \in SeqsUpTo(RequestRecords, MaxRows) : DistinctIds(rows)}
StockCollections ==
    {rows \in SeqsUpTo(StockRecords, MaxRows) : DistinctIds(rows)}

\* the rows a normalizer is run on: the stored collection, or the rows the
\* previous run on this collection returned
NormalizerInputs(t) ==
    {[rows |-> load_json(files, t), run |-> 1]} \cup
    (IF last.op = "normalize" /\ last.table = t
     THEN {[rows |-> last.rows, run |-> last.run + 1]} ELSE {})

\* ensure_request_id_and_defaults(rows)
NormalizeRequests ==
    /\ steps < MaxSteps
    /\ steps' = steps + 1
    /\ \E in \in NormalizerInputs("requests") :
         LET res == ensure_request_id_and_defaults(files, in.rows, uuid_ctr)
         IN /\ files' = res.files
            /\ uuid_ctr' = res.ctr
            /\ last' = [op |-> "normalize", table |-> "requests",
                        input |-> in.rows, rows |-> res.rows,
                        changed |-> res.changed, run |-> in.run,
                        pre_files |-> files]
    /\ UNCHANGED <<supabase, remote, session, pushed>>

\* ensure_stock_id_and_defaults(rows)
NormalizeStockRows ==
    /\ steps < MaxSteps
    /\ steps' = steps + 1
    /\ \E in \in NormalizerInputs("stock_kimonos") :
         LET res == ensure_stock_id_and_defaults(files, in.rows, uuid_ctr)
         IN /\ files' = res.files
            /\ uuid_ctr' = res.ctr
            /\ last' = [op |-> "normalize", table |-> "stock_kimonos",
                        input |-> in.rows, rows |-> res.rows,
                        changed |-> res.changed, run |-> in.run,
                        pre_files |-> files]
    /\ UNCHANGED <<supabase, remote, session, pushed>>

InitNorm ==
    /\ supabase = FALSE
    /\ \E rq \in RequestCollections, sk \in StockCollections :
         files = [SeedFiles EXCEPT !["requests"] = File(rq),
                                   !["stock_kimonos"] = File(sk)]
    /\ remote = EmptyRemote
    /\ uuid_ctr = 0
    /\ session = [user |-> Admin]
    /\ pushed = NoPushes
    /\ last = [op |-> "init"]
    /\ steps = 0

NextNorm == NormalizeRequests \/ NormalizeStockRows

SpecNorm == InitNorm /\ [][NextNorm]_vars

(***************************************************************************)
(* list_user_schools on its own                                            *)
(***************************************************************************)
GateUsers ==
    SeedUsers \o <<[ps_number |-> "PS12", password |-> "pw2",
                    credential |-> "Coach", name |-> "C2"]>>

SchoolRecords ==
    {SeedSchools[1],
     SeedSchools[2],
     [id |-> "s3", nome |-> "C", coaches |-> <<"PS12", "PS1724">>],
     [id |-> "s4", nome |-> "D", coaches |-> <<>>]}

GateFiles ==
    {[SeedFiles EXCEPT !["users"] = File(GateUsers),
                       !["schools"] = File(schools)] :
        schools \in SeqsUpTo(SchoolRecords, MaxRows)}

ListUserSchools ==
    /\ steps < MaxSteps
    /\ steps' = steps + 1
    /\ LET schools == load_json(files, "schools")
       IN last' = [op |-> "list_user_schools", user |-> session.user,
                   schools |-> schools,
                   result |-> list_user_schools(session.user, schools)]
    /\ UNCHANGED <<supabase, files, remote, uuid_ctr, session, pushed>>

InitGate ==
    /\ supabase = FALSE
    /\ files \in GateFiles
    /\ remote = EmptyRemote
    /\ uuid_ctr = 0
    /\ \E c \in {<<"PS1724", "PS1724">>, <<"PS1", "pw1">>, <<"PS12", "pw2">>} :
         session = [user |-> authenticate(files, c[1], c[2])]
    /\ pushed = NoPushes
    /\ last = [op |-> "init"]
    /\ steps = 0

NextGate == ListUserSchools

SpecGate == InitGate /\ [][NextGate]_vars

(***************************************************************************)
(* Properties of the push and pull passes                                  *)
(***************************************************************************)
TableSet == Range(LocalTables)
KeyedTables == {"users", "schools", "requests", "stock_kimonos"}

IsPush == last.op = "push" /\ last.configured
IsPull == last.op = "pull" /\ last.configured
Called(t, op, ok) == Call(t, op, ok) \in Range(last.calls)
Issued(t, op) == Called(t, op, TRUE) \/ Called(t, op, FALSE)

\* the check of t found a remote row and force was not set
CheckFoundRows(t) ==
    /\ IsPush /\ ~last.force
    /\ Called(t, "select", TRUE)
    /\ Len(last.pre_remote[t]) > 0

\* C2: a push pass with force=false whose check of table t returns a row
\* ends for t in Skipped: skipped is incremented once per such table, no
\* delete and no upsert is issued against t, the remote table is unchanged
\* and the local file of t is neither rewritten nor deleted.
C2_SkipLeavesTableAlone ==
    IsPush =>
      /\ last.skipped = Cardinality({t \in TableSet : CheckFoundRows(t)})
      /\ \A t \in TableSet :
           CheckFoundRows(t) =>
             /\ ~Issued(t, "delete")
             /\ ~Issued(t, "upsert")
             /\ ~Issued(t, "remove")
             /\ remote[t] = last.pre_remote[t]
             /\ files[t] = last.pre_files[t]

C2_Witness ==
    /\ CheckFoundRows("schools")
    /\ last.skipped >= 1
    /\ Called("users", "upsert", TRUE)

PulledAfterPush(t) ==
    /\ IsPull
    /\ Called(t, "select", TRUE)
    /\ last.pre_pushed[t].ok

FailedOn(t) ==
    \/ \E op \in {"select", "delete", "upsert", "remove"} : Called(t, op, FALSE)
    \/ t = "users" /\ Called("coaches", "upsert", FALSE)

\* C8: in a push pass a failure in the check, the upsert or the mirror of
\* one table does not stop the pass: every table still has its check
\* issued and is then skipped or upserted, the summary is shown once, and
\* errors are counted only for tables on which a call failed.
C8_FailureIsPerTable ==
    IsPush =>
      /\ \A t \in TableSet :
           /\ Issued(t, "select")
           /\ CheckFoundRows(t) \/ Issued(t, "upsert")
      /\ last.summaries = 1
      /\ last.synced + last.skipped <= Len(LocalTables)
      /\ last.errors <= Cardinality({t \in TableSet : FailedOn(t)})

C8_Witness ==
    /\ IsPush
    /\ Called("users", "upsert", FALSE)
    /\ last.errors = 1
    /\ \A t \in TableSet \ {"users"} : Called(t, "upsert", TRUE)

\* C9 as stated: a push pass deletes the local file of T only if in that
\* pass the check of T succeeded and found the remote table empty, force
\* and replace are both false, and the upsert of T succeeded.
C9_DeleteOnlyAfterFirstSync ==
    IsPush =>
      \A t \in TableSet :
        (last.pre_files[t].exists /\ ~files[t].exists) =>
           /\ Called(t, "select", TRUE)
           /\ Len(last.pre_remote[t]) = 0
           /\ ~last.force /\ ~last.replace
           /\ Called(t, "upsert", TRUE)

\* C10: a push pass started from the Data Sync section issues a remote
\* delete only when force and replace are both set.
C10_ClearNeedsForceAndReplace ==
    IsPush =>
      ((\E t \in TableSet : Issued(t, "delete")) => (last.force /\ last.replace))

C10_Witness ==
    /\ IsPush /\ last.force /\ ~last.replace
    /\ \A t \in TableSet : Called(t, "upsert", TRUE) /\ ~Issued(t, "delete")
    /\ Len(last.pre_remote["requests"]) > 0

(***************************************************************************)
(* Properties of Manage Requests                                           *)
(***************************************************************************)
IsSave == last.op = "save_changes"

\* C6: a Pending request is shown in the editable set and not in the
\* read-only set, any other request only in the read-only set; Save Changes
\* stores every loaded non-Pending request with exactly the fields it had,
\* and every stored request that differs from the loaded one is editable.
C6_OnlyPendingEdited ==
    IsSave =>
      /\ \A r \in Range(last.visible) :
           IF r["status"] = "Pending"
           THEN r \in Range(last.pending) /\ r \notin Range(last.finalized)
           ELSE r \in Range(last.finalized) /\ r \notin Range(last.pending)
      /\ \A r \in Range(last.rows) :
           r["status"] # "Pending" => Count(files["requests"].data, r) = 1
      /\ \A q \in Range(files["requests"].data) :
           \/ q \in Range(last.rows)
           \/ \E p \in Range(last.pending) : p["id"] = q["id"]

C6_Witness ==
    /\ IsSave
    /\ last.user["credential"] = "Admin"
    /\ last.edit.key = "status"
    /\ \E r \in Range(last.finalized) : r["status"] = "Approved"
    /\ \E q \in Range(files["requests"].data) :
         q["id"] = "r1" /\ q["status"] = "Approved"
    /\ \E q \in Range(files["requests"].data) : q["id"] = "r2"

(***************************************************************************)
(* Properties of persist_requests, the normalizers and the gate            *)
(***************************************************************************)
IsPersist == last.op = "persist"

\* C1: persist_requests([r]) with the remote unreachable (the upsert raises,
\* or no client is configured) returns saved = 1, synced = 0 and an error
\* that is not None, and the local requests collection holds r under r's id.
C1_UnreachableReportsError ==
    (IsPersist /\ (~last.configured \/ last.upsert_raised)) =>
       /\ last.result.saved = 1
       /\ last.result.synced = 0
       /\ last.result.error # Null
       /\ \E q \in Range(files["requests"].data) :
            /\ q["id"] = last.rid
            /\ \A k \in DOMAIN last.record \ {"id", "quantity"} :
                 q[k] = last.record[k]

IsNormalize == last.op = "normalize"

IsListing == last.op = "list_user_schools"

\* C5: list_user_schools returns to a Coach exactly the schools whose
\* coaches list has the user's ps_number as an entry, and to an Admin the
\* whole list of schools.
C5_CoachSeesOwnSchools ==
    IsListing =>
       IF last.user["credential"] = "Admin"
       THEN last.result = last.schools
       ELSE /\ \A sc \in Range(last.result) :
                 /\ "coaches" \in DOMAIN sc
                 /\ last.user["ps_number"] \in Range(sc["coaches"])
            /\ \A sc \in Range(last.schools) :
                 Count(last.result, sc) =
                    IF last.user["ps_number"] \in Range(Get(sc, "coaches", <<>>))
                    THEN Count(last.schools, sc) ELSE 0

C5_Witness ==
    /\ IsListing
    /\ last.user["credential"] = "Coach"
    /\ last.user["ps_number"] = "PS12"
    /\ Len(last.schools) = 2
    /\ Len(last.result) = 1
    /\ last.result[1]["id"] = "s3"

(***************************************************************************)
(* Session state of the request workflow                                   *)
(***************************************************************************)
\* st.session_state after login: the user, the batch under construction,
\* the unsynced request ids and the ids staged for deletion
SessionOf(u) ==
    [user |-> u, pending_request |-> <<>>, unsynced_request_ids |-> {},
     confirm_delete_requests |-> <<>>]

\* st.session_state.pop("confirm_delete_requests", None)
PopConfirm(s) ==
    IF "confirm_delete_requests" \in DOMAIN s
    THEN [s EXCEPT !["confirm_delete_requests"] = <<>>]
    ELSE s

(***************************************************************************)
(* Manage Requests: batch status update                                    *)
(***************************************************************************)
\* by_id = {r.get("id"): r for r in rows if r.get("id")}
RECURSIVE TruthyRowsById(_, _)
TruthyRowsById(rows, n) ==
    IF n = 0 THEN <<>>
    ELSE LET d == TruthyRowsById(rows, n - 1)
             rid == Get(rows[n], "id", Null)
         IN IF Truthy(rid) THEN DictPut(d, rid, rows[n]) ELSE d

\* the loop over selected_indices: by_id[rid]["status"] = new_status
RECURSIVE ApplyStatus(_, _, _, _, _)
ApplyStatus(by_id, pending, selected, new_status, n) ==
    IF n = 0 THEN [by_id |-> by_id, updated_ids |-> <<>>]
    ELSE LET a == ApplyStatus(by_id, pending, selected, new_status, n - 1)
             rid == Get(pending[n], "id", Null)
         IN IF n \in selected /\ Truthy(rid) /\ DictHas(a.by_id, rid)
            THEN [by_id |-> DictPut(a.by_id, rid,
                              Put(DictGet(a.by_id, rid), "status", new_status)),
                  updated_ids |-> Append(a.updated_ids, rid)]
            ELSE a

\* updated_rows: every loaded row, taken from by_id when its id is there
UpdatedRows(rows, by_id) ==
    [i \in DOMAIN rows |->
        IF DictHas(by_id, Get(rows[i], "id", Null))
        THEN DictGet(by_id, Get(rows[i], "id", Null))
        ELSE rows[i]]

\* shaped = {k: record.get(k) for k in allowed}, quantity as int if possible
BatchPayload(by_id, updated_ids) ==
    [i \in DOMAIN updated_ids |->
        CoerceQuantity(PayloadRow(DictGet(by_id, updated_ids[i])))]

StatusOptions == {"Pending", "Approved", "Rejected"}

\* "Update Status for Selected Requests"
BatchStatus ==
    /\ session.user["credential"] = "Admin"
    /\ steps < MaxSteps
    /\ steps' = steps + 1
    /\ \E readFails \in BOOLEAN, upsertFails \in BOOLEAN :
       \E u \in {session.user}, fs0 \in {Bootstrap(files)} :
       \E all \in {ManageView(fs0, remote, supabase, uuid_ctr, u, readFails,
                              "All schools")} :
       \E sel \in all.school_options :
       \E v \in {ManageView(fs0, remote, supabase, uuid_ctr, u, readFails, sel)} :
         /\ v.pending # <<>>
         /\ v.ctr <= MaxUuid
         /\ \E selected \in SUBSET (DOMAIN v.pending) \ {{}},
               new_status \in StatusOptions :
            \E a \in {ApplyStatus(TruthyRowsById(v.rows, Len(v.rows)), v.pending,
                                  selected, new_status, Len(v.pending))} :
            \E payload \in {BatchPayload(a.by_id, a.updated_ids)} :
              /\ a.updated_ids # <<>>
              /\ files' = save_json(v.files, "requests",
                                    UpdatedRows(v.rows, a.by_id))
              /\ remote' = IF supabase /\ ~upsertFails
                           THEN [remote EXCEPT !["requests"] =
                                   UpsertRows("requests", @, payload, "id", TRUE)]
                           ELSE remote
              /\ pushed' = IF supabase /\ ~upsertFails
                           THEN [pushed EXCEPT !["requests"] = NoPush]
                           ELSE pushed
              /\ uuid_ctr' = v.ctr
              /\ session' = PopConfirm(session)
              /\ last' = [op |-> "batch_status", user |-> u,
                          rows |-> v.rows, visible |-> v.visible,
                          pending |-> v.pending, finalized |-> v.finalized,
                          new_status |-> new_status,
                          updated |-> Len(a.updated_ids),
                          synced |-> IF supabase /\ ~upsertFails
                                     THEN Len(payload) ELSE 0,
                          table |-> "requests",
                          written |-> UpdatedRows(v.rows, a.by_id),
                          order |-> LocalThenRemote("requests", supabase),
                          attempted |-> supabase,
                          upsert_ok |-> supabase /\ ~upsertFails,
                          payload |-> payload,
                          pre_files |-> fs0, loaded_files |-> v.files,
                          pre_remote |-> remote]
    /\ UNCHANGED <<supabase>>

(***************************************************************************)
(* Admin Schools and Admin Users: the grids and their save handlers        *)
(***************************************************************************)
\* str(x).strip().upper() on the PS numbers typed into a grid
UpperStrip(v) == CASE v = " ps12 " -> "PS12"
                   [] v = "ps1" -> "PS1"
                   [] v = "bad" -> "BAD"
                   [] v = "psx" -> "PSX"
                   [] v = " " -> ""
                   [] OTHER -> v

\* re.match(r"^PS\d+$", v) on those values
PsNumbers == {"PS1", "PS12", "PS1724", "PS9"}
MatchesPs(v) == v \in PsNumbers

\* a missing or None cell after fillna("")
Cell(r, c) == IF Get(r, c, Null) = Null THEN "" ELSE r[c]

\* the columns of the Admin Schools grid
SchoolColumns(schools) ==
    (IF schools = <<>> THEN {"id", "nome", "city", "coaches"}
     ELSE UNION {DOMAIN schools[i] : i \in DOMAIN schools}) \cup {"Delete"}

\* the grid as loaded: every column for every row, the coaches list shown as
\* comma-separated text (kept here as the list of its comma-separated parts)
SchoolGrid(schools) ==
    [i \in DOMAIN schools |->
        [c \in SchoolColumns(schools) |->
            IF c = "Delete" THEN "False"
            ELSE IF c = "coaches" THEN Get(schools[i], c, <<>>)
            ELSE Cell(schools[i], c)]]

\* a new row typed into a grid: the given cells, "" elsewhere
NewGridRow(cols, given) ==
    [c \in cols |-> IF c \in DOMAIN given THEN given[c]
                    ELSE IF c = "coaches" THEN <<>>
                    ELSE IF c = "Delete" THEN "False" ELSE ""]

\* the grids an Admin can submit from the loaded one (one edit at most)
SchoolGrids(grid, cols) ==
    {grid,
     Append(grid, NewGridRow(cols, [id |-> "s9", nome |-> "N",
                                    coaches |-> <<" ps12 ", "bad", "PS1">>])),
     Append(grid, NewGridRow(cols, [nome |-> "N"])),
     Append(grid, NewGridRow(cols, [id |-> "s1", nome |-> "N"])),
     Append(grid, NewGridRow(cols, [id |-> " ", nome |-> "N"]))}
    \cup {[grid EXCEPT ![i] = Put(@, "coaches", <<"ps1", "PS9", "">>)] :
            i \in DOMAIN grid}
    \cup {[grid EXCEPT ![i]["id"] = ""] : i \in DOMAIN grid}
    \cup {[grid EXCEPT ![i]["id"] = "s8"] : i \in DOMAIN grid}

\* r["coaches"] after the split and the PS-number validation
ValidCoaches(tokens) ==
    LET stripped == SelectSeq([i \in DOMAIN tokens |-> UpperStrip(tokens[i])],
                              LAMBDA x : x # "")
    IN SelectSeq(stripped, MatchesPs)

\* rows (1-based) whose id is missing
InvalidIdRows(grid) ==
    {i \in DOMAIN grid : Strip(Str(Get(grid[i], "id", ""))) = ""}

SchoolRecords_Saved(grid) ==
    [i \in DOMAIN grid |->
        Put(grid[i], "coaches", ValidCoaches(Get(grid[i], "coaches", <<>>)))]

SchoolPayload(records) ==
    [i \in DOMAIN records |->
        [k \in {"id", "nome", "city", "coaches"} |-> Get(records[i], k, Null)]]

\* Admin Schools: "Save Changes"
SchoolsSave ==
    /\ session.user["credential"] = "Admin"
    /\ steps < MaxSteps
    /\ steps' = steps + 1
    /\ \E upsertFails \in BOOLEAN :
       \E fs0 \in {Bootstrap(files)} :
       \E schools \in {load_json(fs0, "schools")} :
       \E grid \in SchoolGrids(SchoolGrid(schools), SchoolColumns(schools)) :
       \E records \in {SchoolRecords_Saved(grid)} :
         IF InvalidIdRows(grid) # {}
         THEN /\ files' = fs0
              /\ UNCHANGED <<remote, pushed>>
              /\ last' = [op |-> "schools_save", aborted |-> TRUE,
                          grid |-> grid, saved |-> 0,
                          errors |-> Cardinality(InvalidIdRows(grid)),
                          pre_files |-> fs0, pre_remote |-> remote]
         ELSE \E attempted \in {supabase /\ records # <<>>} :
              /\ files' = save_json(fs0, "schools", records)
              /\ remote' = IF attempted /\ ~upsertFails
                           THEN [remote EXCEPT !["schools"] =
                                   UpsertRows("schools", @,
                                              SchoolPayload(records), "id", TRUE)]
                           ELSE remote
              /\ pushed' = IF attempted /\ ~upsertFails
                           THEN [pushed EXCEPT !["schools"] = NoPush]
                           ELSE pushed
              /\ last' = [op |-> "schools_save", aborted |-> FALSE,
                          grid |-> grid, saved |-> Len(records),
                          synced |-> IF attempted /\ ~upsertFails
                                     THEN Len(records) ELSE 0,
                          table |-> "schools", written |-> records,
                          order |-> LocalThenRemote("schools", attempted),
                          attempted |-> attempted,
                          upsert_ok |-> attempted /\ ~upsertFails,
                          payload |-> SchoolPayload(records),
                          pre_files |-> fs0, pre_remote |-> remote]
    /\ UNCHANGED <<supabase, uuid_ctr, session>>

\* the Admin Users grid as loaded: the four columns for every row
UserGrid(users) ==
    [i \in DOMAIN users |->
        [c \in {"ps_number", "password", "credential", "name"} |->
            Cell(users[i], c)]]

UserRow(ps, cred) ==
    [ps_number |-> ps, password |-> "pw", credential |-> cred, name |-> "N"]

\* the grids an Admin can submit from the loaded one (one edit at most)
UserGrids(grid) ==
    {grid,
     Append(grid, UserRow(" ps12 ", "Coach")),
     Append(grid, UserRow("psx", "Coach")),
     Append(grid, UserRow("ps1", "Admin")),
     Append(grid, UserRow("", "Coach")),
     Append(grid, UserRow("PS9", ""))}
    \cup {[grid EXCEPT ![i]["credential"] = "Admin"] : i \in DOMAIN grid}
    \cup {[grid EXCEPT ![i]["ps_number"] = "bad"] : i \in DOMAIN grid}

\* variant: a ps_number seen before is shaped again
RECURSIVE ShapeUsers_NoDuplicateCheck(_, _)
ShapeUsers_NoDuplicateCheck(rows, n) ==
    IF n = 0
    THEN [shaped |-> <<>>, invalid_rows |-> <<>>, duplicated |-> {}, seen |-> {}]
    ELSE LET a == ShapeUsers_NoDuplicateCheck(rows, n - 1)
             r == rows[n]
             raw_ps == UpperStrip(Str(Get(r, "ps_number", "")))
             given == Get(r, "credential", "Coach")
             cred == IF given \in {"Coach", "Admin"} THEN given ELSE "Coach"
         IN IF raw_ps = "" THEN a
            ELSE IF ~MatchesPs(raw_ps)
            THEN [a EXCEPT !.invalid_rows = Append(@, raw_ps)]
            ELSE [a EXCEPT !.seen = @ \cup {raw_ps},
                           !.shaped = Append(@,
                              [ps_number |-> raw_ps,
                               password |-> Str(Get(r, "password", "")),
                               credential |-> cred,
                               name |-> Str(Get(r, "name", ""))])]

\* the validation loop of Save User Changes over rows[1..n]
RECURSIVE ShapeUsers(_, _)
ShapeUsers(rows, n) ==
    IF n = 0
    THEN [shaped |-> <<>>, invalid_rows |-> <<>>, duplicated |-> {}, seen |-> {}]
    ELSE LET a == ShapeUsers(rows, n - 1)
             r == rows[n]
             raw_ps == UpperStrip(Str(Get(r, "ps_number", "")))
             given == Get(r, "credential", "Coach")
             cred == IF given \in {"Coach", "Admin"} THEN given ELSE "Coach"
         IN IF raw_ps = "" THEN a
            ELSE IF ~MatchesPs(raw_ps)
            THEN [a EXCEPT !.invalid_rows = Append(@, raw_ps)]
            ELSE IF raw_ps \in a.seen
            THEN [a EXCEPT !.duplicated = @ \cup {raw_ps}]
            ELSE [a EXCEPT !.seen = @ \cup {raw_ps},
                           !.shaped = Append(@,
                              [ps_number |-> raw_ps,
                               password |-> Str(Get(r, "password", "")),
                               credential |-> cred,
                               name |-> Str(Get(r, "name", ""))])]

\* Admin Users: "Save User Changes"
UsersSave ==
    /\ session.user["credential"] = "Admin"
    /\ steps < MaxSteps
    /\ steps' = steps + 1
    /\ \E upsertFails \in BOOLEAN, mirrorFails \in BOOLEAN :
       \E fs0 \in {Bootstrap(files)} :
       \E grid \in UserGrids(UserGrid(load_json(fs0, "users"))) :
       \E a \in {ShapeUsers(grid, Len(grid))} :
         IF a.invalid_rows # <<>> \/ a.duplicated # {}
         THEN /\ files' = fs0
              /\ UNCHANGED <<remote, pushed>>
              /\ last' = [op |-> "users_save", aborted |-> TRUE,
                          grid |-> grid, saved |-> 0,
                          errors |-> Len(a.invalid_rows)
                                       + Cardinality(a.duplicated),
                          pre_files |-> fs0, pre_remote |-> remote]
         ELSE \E attempted \in {supabase /\ a.shaped # <<>>} :
              \E usersOk \in {attempted /\ ~upsertFails} :
              \E mirrorOk \in {usersOk /\ ~mirrorFails} :
              /\ files' = save_json(fs0, "users", a.shaped)
              /\ remote' =
                   [remote EXCEPT
                      !["users"] = IF usersOk
                                   THEN UpsertRows("users", @, a.shaped,
                                                   "ps_number", TRUE)
                                   ELSE @,
                      !["coaches"] = IF mirrorOk
                                     THEN UpsertRows("coaches", @,
                                                     Mirrored(a.shaped),
                                                     "ps_number", TRUE)
                                     ELSE @]
              /\ pushed' = IF usersOk
                           THEN [pushed EXCEPT !["users"] = NoPush]
                           ELSE pushed
              /\ last' = [op |-> "users_save", aborted |-> FALSE,
                          grid |-> grid, saved |-> Len(a.shaped),
                          synced |-> IF usersOk THEN Len(a.shaped) ELSE 0,
                          synced_reported |-> attempted,
                          table |-> "users", written |-> a.shaped,
                          order |-> LocalThenRemote("users", attempted),
                          attempted |-> attempted,
                          upsert_ok |-> usersOk, mirror_ok |-> mirrorOk,
                          payload |-> a.shaped,
                          pre_files |-> fs0, pre_remote |-> remote]
    /\ UNCHANGED <<supabase, uuid_ctr, session>>

(***************************************************************************)
(* The write paths that touch both stores, one handler per behaviour step  *)
(***************************************************************************)
\* the session has had all but MaxWrites of its script runs
InitWrite ==
    /\ supabase \in BOOLEAN
    /\ files = SeedFiles
    /\ remote \in {EmptyRemote, SeededRemote}
    /\ uuid_ctr = 0
    /\ session \in {SessionOf(Admin), SessionOf(Coach)}
    /\ pushed = NoPushes
    /\ last = [op |-> "init"]
    /\ steps = MaxSteps - MaxWrites

NextWrite ==
    \/ PersistCall
    \/ SaveChanges
    \/ BatchStatus
    \/ SchoolsSave
    \/ UsersSave

SpecWrite == InitWrite /\ [][NextWrite]_vars

(***************************************************************************)
(* Properties of the write paths                                           *)
(***************************************************************************)
\* a write path that got past its validation
IsWritePath ==
    /\ last.op \in {"persist", "save_changes", "batch_status", "schools_save",
                    "users_save"}
    /\ "written" \in DOMAIN last

LoadCall ==
    /\ steps < MaxSteps
    /\ steps' = steps + 1
    /\ \E readFails \in BOOLEAN :
       \E fs0 \in {Bootstrap(files)} :
       \E ld \in {load_requests_data(fs0, remote, supabase, uuid_ctr, readFails)} :
         /\ ld.ctr <= MaxUuid
         /\ files' = ld.files
         /\ uuid_ctr' = ld.ctr
         /\ last' = [op |-> "load", configured |-> supabase,
                     read_failed |-> supabase /\ readFails,
                     rows |-> ld.rows, source |-> ld.source, error |-> ld.error,
                     pre_files |-> fs0, pre_remote |-> remote]
    /\ UNCHANGED <<supabase, remote, session, pushed>>

NextLoad == LoadCall \/ PersistCall

SpecLoad == InitPersist /\ [][NextLoad]_vars

IsLoad == last.op = "load"

\* the row `out` is the row `r` with nothing but defaults added
Extends(out, r) == \A k \in DOMAIN r : k \in DOMAIN out /\ out[k] = r[k]

\* C12: load_requests_data returns the remote rows when the remote is
\* configured and the read succeeds; when the read fails it returns the rows
\* of the local cache with source "local" and the cache still holds every row
\* it held; in both cases every returned row has id, status and ps_number.
C12_ReadPrefersRemote ==
    IsLoad =>
       LET cached == last.pre_files["requests"].data
       IN /\ (last.configured /\ ~last.read_failed) =>
               last.rows = last.pre_remote["requests"]
          /\ last.read_failed =>
               /\ last.source = "local"
               /\ last.error # Null
               /\ Len(last.rows) = Len(cached)
               /\ \A i \in DOMAIN cached : Extends(last.rows[i], cached[i])
               /\ Len(files["requests"].data) = Len(cached)
               /\ \A i \in DOMAIN cached :
                    Extends(files["requests"].data[i], cached[i])
          /\ \A i \in DOMAIN last.rows :
               {"id", "status", "ps_number"} \subseteq DOMAIN last.rows[i]

C12_Witness ==
    /\ IsLoad
    /\ last.read_failed
    /\ last.pre_files["requests"].data = LegacyRequests
    /\ last.rows[2]["id"] = Uuid(1)
    /\ last.rows[2]["ps_number"] = "unknown"
    /\ files["requests"].data = last.rows

\* C13: persist_requests([r]) keeps every record that was in the local
\* requests collection and whose id is not r's id, unchanged; stores r under
\* its id exactly once; and the upsert payload holds r and no other record.
C13_PersistMergesById ==
    IsPersist =>
       LET before == last.pre_files["requests"].data
           after == files["requests"].data
       IN /\ \A i \in DOMAIN before :
               Get(before[i], "id", Null) # last.rid
                  => \E j \in DOMAIN after : after[j] = before[i]
          /\ Cardinality({j \in DOMAIN after : after[j]["id"] = last.rid}) = 1
          /\ Len(last.payload) = 1
          /\ last.payload[1]["id"] = last.rid

(***************************************************************************)
(* Manage Requests: staged deletion                                        *)
(***************************************************************************)
\* to_delete_ids = [pending[i]["id"] for i in to_delete_indices]
RECURSIVE PickIds(_, _, _)
PickIds(pending, checked, n) ==
    IF n = 0 THEN <<>>
    ELSE IF n \in checked
         THEN Append(PickIds(pending, checked, n - 1), pending[n]["id"])
         ELSE PickIds(pending, checked, n - 1)

\* "Delete Selected Items": the checked rows of the editable grid are staged
StageDelete ==
    /\ session.user # NoUser
    /\ steps < MaxActs
    /\ steps' = steps + 1
    /\ \E readFails \in BOOLEAN :
       \E u \in {session.user}, fs0 \in {Bootstrap(files)} :
       \E all \in {ManageView(fs0, remote, supabase, uuid_ctr, u, readFails,
                              "All schools")} :
       \E sel \in all.school_options :
       \E v \in {ManageView(fs0, remote, supabase, uuid_ctr, u, readFails, sel)} :
         /\ v.visible # <<>>
         /\ v.ctr <= MaxUuid
         /\ \E checked \in SUBSET (DOMAIN v.pending) :
            \E to_delete_ids \in {PickIds(v.pending, checked, Len(v.pending))} :
              /\ files' = v.files
              /\ uuid_ctr' = v.ctr
              /\ session' = IF to_delete_ids = <<>> THEN session
                            ELSE [session EXCEPT
                                    !["confirm_delete_requests"] = to_delete_ids]
              /\ last' = [op |-> "stage_delete", user |-> u,
                          visible |-> v.visible, pending |-> v.pending,
                          staged |-> to_delete_ids, pre_files |-> fs0]
    /\ UNCHANGED <<supabase, remote, pushed>>

\* "Confirm Delete" for the staged request ids
ConfirmDelete ==
    /\ session.user # NoUser
    /\ session["confirm_delete_requests"] # <<>>
    /\ steps < MaxActs
    /\ steps' = steps + 1
    /\ \E readFails \in BOOLEAN, deleteFails \in BOOLEAN :
       \E u \in {session.user}, fs0 \in {Bootstrap(files)} :
       \E v \in {ManageView(fs0, remote, supabase, uuid_ctr, u, readFails,
                            "All schools")} :
       \E confirm_ids \in {Range(session["confirm_delete_requests"])} :
       \E kept \in {SelectSeq(v.rows,
                      LAMBDA r : Get(r, "id", Null) \notin confirm_ids)} :
         /\ v.visible # <<>>
         /\ v.ctr <= MaxUuid
         /\ files' = save_json(v.files, "requests", kept)
         /\ remote' = IF supabase /\ ~deleteFails
                      THEN [remote EXCEPT !["requests"] =
                              DeleteIn(@, "id", confirm_ids)]
                      ELSE remote
         /\ pushed' = IF supabase /\ ~deleteFails
                      THEN [pushed EXCEPT !["requests"] = NoPush]
                      ELSE pushed
         /\ uuid_ctr' = v.ctr
         /\ session' = PopConfirm(session)
         /\ last' = [op |-> "confirm_delete", user |-> u,
                     confirm_ids |-> confirm_ids, current_rows |-> v.rows,
                     kept |-> kept, deleted |-> Cardinality(confirm_ids),
                     delete_ok |-> supabase /\ ~deleteFails,
                     pre_files |-> fs0, pre_remote |-> remote]
    /\ UNCHANGED <<supabase>>

\* "Cancel" of the confirmation box
CancelDelete ==
    /\ session.user # NoUser
    /\ session["confirm_delete_requests"] # <<>>
    /\ steps < MaxActs
    /\ steps' = steps + 1
    /\ \E readFails \in BOOLEAN :
       \E u \in {session.user}, fs0 \in {Bootstrap(files)} :
       \E v \in {ManageView(fs0, remote, supabase, uuid_ctr, u, readFails,
                            "All schools")} :
         /\ v.visible # <<>>
         /\ v.ctr <= MaxUuid
         /\ files' = v.files
         /\ uuid_ctr' = v.ctr
         /\ session' = PopConfirm(session)
         /\ last' = [op |-> "cancel_delete", user |-> u, pre_files |-> fs0]
    /\ UNCHANGED <<supabase, remote, pushed>>

InitDelete ==
    /\ supabase \in BOOLEAN
    /\ files = SeedFiles
    /\ remote = IF supabase THEN SeededRemote ELSE EmptyRemote
    /\ uuid_ctr = 0
    /\ session \in {SessionOf(Admin), SessionOf(Coach)}
    /\ pushed = NoPushes
    /\ last = [op |-> "init"]
    /\ steps = 0

NextDelete ==
    StageDelete \/ SaveChanges \/ BatchStatus \/ ConfirmDelete \/ CancelDelete

SpecDelete == InitDelete /\ [][NextDelete]_vars

IsConfirmDelete == last.op = "confirm_delete"

\* C14: Confirm Delete removes only requests that are Pending when it runs:
\* a request that is not Pending among the rows it loads is still in the
\* local collection, and in the remote table if it was there, afterwards.
C14_ConfirmDeletesOnlyPending ==
    IsConfirmDelete =>
       \A r \in Range(last.current_rows) :
          r["status"] # "Pending" =>
             /\ r \in Range(files["requests"].data)
             /\ (\E q \in Range(last.pre_remote["requests"]) : q["id"] = r["id"])
                   => \E q \in Range(remote["requests"]) : q["id"] = r["id"]

(***************************************************************************)
(* Submit Request                                                          *)
(***************************************************************************)
\* datetime.now().strftime(...)
Now == "d9"

\* school_choice.split("(")[-1].replace(")", "").strip() of the label
\* "<nome> (<id>)"
SelectedSchoolId(s) == Strip(Str(Get(s, "id", "")))

\* f"{m.get('subcategory','')} {m.get('item','')}".strip()
MaterialChoice(m) ==
    Strip(Get(m, "subcategory", "") \o " " \o Get(m, "item", ""))

\* the values of the quantity input (min_value=1)
QuantityInputs == {"1", "2"}

\* st.session_state.get(k, dflt)
SessionGet(s, k, dflt) == IF k \in DOMAIN s THEN s[k] ELSE dflt

\* the unsynced set after a persist of `ids` that returned `error`
Unsynced(s, ids, error) ==
    IF error # Null
    THEN SessionGet(s, "unsynced_request_ids", {}) \cup ids
    ELSE SessionGet(s, "unsynced_request_ids", {}) \ ids

\* "Add Another Item"
AddItem ==
    /\ session.user # NoUser
    /\ steps < MaxActs
    /\ uuid_ctr < MaxUuid
    /\ steps' = steps + 1
    /\ \E upsertFails \in BOOLEAN, qty \in QuantityInputs :
       \E u \in {session.user}, fs0 \in {Bootstrap(files)} :
       \E schools \in {load_json(fs0, "schools")},
          materials \in {load_json(fs0, "materials")} :
       \E visible_schools \in {list_user_schools(u, schools)} :
       \E i \in DOMAIN visible_schools, j \in DOMAIN materials :
       \E selected_school_id \in {SelectedSchoolId(visible_schools[i])},
          category \in {Get(materials[j], "category", "")},
          material_choice \in {MaterialChoice(materials[j])} :
         /\ Truthy(selected_school_id)
         /\ Truthy(category)
         /\ Truthy(material_choice)
         /\ \E new_item \in {[id |-> Uuid(uuid_ctr + 1),
                              school_id |-> selected_school_id,
                              category |-> category,
                              material |-> material_choice,
                              quantity |-> qty, date |-> Now,
                              ps_number |-> Str(u["ps_number"]),
                              status |-> "Pending"]} :
            \E res \in {persist_requests(fs0, remote, supabase, <<new_item>>,
                                         uuid_ctr + 1, upsertFails)} :
              /\ files' = res.files
              /\ remote' = res.remote
              /\ pushed' = IF supabase /\ ~upsertFails
                           THEN [pushed EXCEPT !["requests"] = NoPush]
                           ELSE pushed
              /\ uuid_ctr' = res.ctr
              /\ session' =
                   Put(Put(session, "pending_request",
                           Append(SessionGet(session, "pending_request", <<>>),
                                  new_item)),
                       "unsynced_request_ids",
                       Unsynced(session, {new_item["id"]}, res.result.error))
              /\ last' = [op |-> "add_item", user |-> u, aborted |-> FALSE,
                          batch |-> <<new_item>>, ids |-> {new_item["id"]},
                          result |-> res.result, payload |-> res.payload,
                          saved |-> res.result.saved,
                          synced |-> res.result.synced,
                          table |-> "requests", written |-> res.written,
                          order |-> LocalThenRemote("requests", supabase),
                          attempted |-> supabase,
                          upsert_ok |-> supabase /\ ~upsertFails,
                          pre_rows |-> load_json(fs0, "requests"),
                          pre_session |-> session,
                          pre_files |-> fs0, pre_remote |-> remote]
    /\ UNCHANGED <<supabase>>

\* the validation errors of the batch
BatchErrors(batch, schools) ==
    LET valid_school_ids == {Str(Get(schools[k], "id", Null)) : k \in DOMAIN schools}
        sid(it) == Strip(Str(Get(it, "school_id", "")))
    IN {i \in DOMAIN batch :
          \/ sid(batch[i]) = ""
          \/ sid(batch[i]) \notin valid_school_ids
          \/ ~IntParses(Get(batch[i], "quantity", "0"))
          \/ IntOf(Get(batch[i], "quantity", "0")) = "0"}

\* "Submit Request" on the current batch
SubmitRequest ==
    /\ session.user # NoUser
    /\ SessionGet(session, "pending_request", <<>>) # <<>>
    /\ steps < MaxActs
    /\ steps' = steps + 1
    /\ \E upsertFails \in BOOLEAN :
       \E u \in {session.user}, fs0 \in {Bootstrap(files)} :
       \E batch \in {session["pending_request"]} :
       \E errors \in {BatchErrors(batch, load_json(fs0, "schools"))} :
         IF errors # {}
         THEN /\ files' = fs0
              /\ last' = [op |-> "submit", user |-> u, aborted |-> TRUE,
                          batch |-> batch, saved |-> 0, synced |-> 0,
                          errors |-> Cardinality(errors),
                          pre_rows |-> load_json(fs0, "requests"),
                          pre_session |-> session,
                          pre_files |-> fs0, pre_remote |-> remote]
              /\ UNCHANGED <<remote, pushed, uuid_ctr, session>>
         ELSE
           \E res \in {persist_requests(fs0, remote, supabase, batch,
                                        uuid_ctr, upsertFails)} :
           \E batch_ids \in {{Str(batch[i]["id"]) :
                                i \in {k \in DOMAIN batch :
                                         Truthy(Get(batch[k], "id", Null))}}} :
              /\ files' = res.files
              /\ remote' = res.remote
              /\ pushed' = IF supabase /\ ~upsertFails
                           THEN [pushed EXCEPT !["requests"] = NoPush]
                           ELSE pushed
              /\ uuid_ctr' = res.ctr
              /\ session' =
                   Put(Put(session, "unsynced_request_ids",
                           Unsynced(session, batch_ids, res.result.error)),
                       "pending_request", <<>>)
              /\ last' = [op |-> "submit", user |-> u, aborted |-> FALSE,
                          batch |-> batch, ids |-> batch_ids,
                          result |-> res.result, payload |-> res.payload,
                          saved |-> res.result.saved,
                          synced |-> res.result.synced,
                          errors |-> IF res.result.error # Null THEN 1 ELSE 0,
                          table |-> "requests", written |-> res.written,
                          order |-> LocalThenRemote("requests", supabase),
                          attempted |-> supabase,
                          upsert_ok |-> supabase /\ ~upsertFails,
                          pre_rows |-> load_json(fs0, "requests"),
                          pre_session |-> session,
                          pre_files |-> fs0, pre_remote |-> remote]
    /\ UNCHANGED <<supabase>>

(***************************************************************************)
(* Two browser sessions over the same data files                           *)
(***************************************************************************)
\* `session` is the st.session_state of the browser session whose
\* interaction runs next; its field "other" holds the st.session_state of
\* the second browser session.
SessionKeys ==
    {"user", "pending_request", "unsynced_request_ids",
     "confirm_delete_requests"}

TwoSessions(mine, theirs) == Put(mine, "other", theirs)

\* the next interaction comes from the other browser session
SwitchSession ==
    /\ "other" \in DOMAIN session
    /\ session' = TwoSessions(session["other"], Restrict(session, SessionKeys))
    /\ last' = [op |-> "switch"]
    /\ UNCHANGED <<supabase, files, remote, uuid_ctr, pushed, steps>>

InitCoach ==
    /\ supabase \in BOOLEAN
    /\ files = SeedFiles
    /\ remote = IF supabase THEN SeededRemote ELSE EmptyRemote
    /\ uuid_ctr = 0
    /\ session = TwoSessions(SessionOf(Coach), SessionOf(Admin))
    /\ pushed = NoPushes
    /\ last = [op |-> "init"]
    /\ steps = 0

NextCoach ==
    \/ AddItem
    \/ SubmitRequest
    \/ SaveChanges
    \/ BatchStatus
    \/ SwitchSession

SpecCoach == InitCoach /\ [][NextCoach]_vars

\* a handler that ran in a Coach session
IsCoachAction ==
    /\ last.op \in {"add_item", "submit", "save_changes"}
    /\ last.user["credential"] = "Coach"

\* the requests the handler read before writing
RowsRead == IF last.op = "save_changes" THEN last.rows ELSE last.pre_rows

\* C15: a handler run in a Coach session leaves the status of every request
\* that existed before it as it was, in the local collection and in the
\* remote table, and every request it creates has status Pending.
C15_CoachNeverChangesStatus ==
    IsCoachAction =>
       /\ \A q \in Range(files["requests"].data) :
             /\ \A r \in Range(RowsRead) :
                   r["id"] = q["id"] => q["status"] = r["status"]
             /\ (\A r \in Range(RowsRead) : r["id"] # q["id"])
                   => q["status"] = "Pending"
       /\ \A q \in Range(remote["requests"]) :
             \A r \in Range(last.pre_remote["requests"]) :
                r["id"] = q["id"] => q["status"] = r["status"]

(***************************************************************************)
(* What a user is shown: Manage Requests and Kimono Stock                  *)
(***************************************************************************)
\* variant: no visibility filter on the stock rows
FilterStock_All(u, stock_rows, visible_schools, selected_school_id) ==
    stock_rows

\* filtered_rows of Kimono Stock
FilterStock(u, stock_rows, visible_schools, selected_school_id) ==
    LET sid(r) == Str(Get(r, "school_id", Null))
    IN IF Get(u, "credential", Null) = "Admin"
       THEN IF ~Truthy(selected_school_id) THEN stock_rows
            ELSE SelectSeq(stock_rows,
                   LAMBDA r : sid(r) = Str(selected_school_id))
       ELSE LET allowed_ids == {Str(Get(visible_schools[i], "id", Null)) :
                                  i \in DOMAIN visible_schools}
                own == SelectSeq(stock_rows, LAMBDA r : sid(r) \in allowed_ids)
            IN IF Truthy(selected_school_id)
               THEN SelectSeq(own, LAMBDA r : sid(r) = Str(selected_school_id))
               ELSE own

\* the Kimono Stock page up to the grid
KimonoView(fs, u, ctr) ==
    LET schools == load_json(fs, "schools")
        n == ensure_stock_id_and_defaults(fs, load_json(fs, "stock_kimonos"), ctr)
        visible_schools == list_user_schools(u, schools)
    IN [files |-> n.files, ctr |-> n.ctr, schools |-> schools,
        stock_rows |-> n.rows, visible_schools |-> visible_schools,
        school_options |->
            IF visible_schools = <<>> THEN {Null}
            ELSE {Null} \cup {SelectedSchoolId(visible_schools[i]) :
                                i \in DOMAIN visible_schools}]

\* the Kimono Stock section is shown, with a choice in the school selectbox
\* (Null stands for "All schools" or for no selectbox)
KimonoStock ==
    /\ session.user # NoUser
    /\ steps < MaxSteps
    /\ steps' = steps + 1
    /\ \E u \in {session.user}, fs0 \in {Bootstrap(files)} :
       \E v \in {KimonoView(fs0, u, uuid_ctr)} :
       \E selected_school_id \in v.school_options :
         /\ v.ctr <= MaxUuid
         /\ files' = v.files
         /\ uuid_ctr' = v.ctr
         /\ last' = [op |-> "kimono_stock", user |-> u,
                     schools |-> v.schools, rows |-> v.stock_rows,
                     selected |-> selected_school_id,
                     shown |-> FilterStock(u, v.stock_rows, v.visible_schools,
                                           selected_school_id),
                     pre_files |-> fs0]
    /\ UNCHANGED <<supabase, remote, session, pushed>>

\* the Manage Requests section is shown, with a choice in "Filter by school"
ManageRequests ==
    /\ session.user # NoUser
    /\ steps < MaxSteps
    /\ steps' = steps + 1
    /\ \E readFails \in BOOLEAN :
       \E u \in {session.user}, fs0 \in {Bootstrap(files)} :
       \E all \in {ManageView(fs0, remote, supabase, uuid_ctr, u, readFails,
                              "All schools")} :
       \E sel \in all.school_options :
       \E v \in {ManageView(fs0, remote, supabase, uuid_ctr, u, readFails, sel)} :
         /\ v.ctr <= MaxUuid
         /\ files' = v.files
         /\ uuid_ctr' = v.ctr
         /\ last' = [op |-> "manage_requests", user |-> u,
                     schools |-> load_json(v.files, "schools"),
                     rows |-> v.rows,
                     selected |-> IF sel = "All schools" THEN Null ELSE sel,
                     shown |-> v.visible, pending |-> v.pending,
                     pre_files |-> fs0]
    /\ UNCHANGED <<supabase, remote, session, pushed>>

ViewRequests ==
    SeedRequests \o
    <<[id |-> "r4", school_id |-> "s3", category |-> "c1", material |-> "sc it",
       quantity |-> "1", date |-> "d4", ps_number |-> "PS12",
       status |-> "Pending"]>>

ViewStock ==
    <<[id |-> "k1", school_id |-> "s1", project |-> "MOE", type |-> "A1",
       size |-> "C0", quantity |-> "2"],
      [school_id |-> "s2", project |-> "ese", quantity |-> "x"],
      [id |-> "k3", school_id |-> "s3", project |-> "ESE", type |-> "A2",
       size |-> "C1", quantity |-> "1"],
      [id |-> "k4", project |-> "MOE", quantity |-> "1"]>>

\* the session has had all but MaxWrites of its script runs
InitView ==
    /\ supabase \in BOOLEAN
    /\ \E schools \in SeqsUpTo(SchoolRecords, MaxRows) :
         files = [SeedFiles EXCEPT !["users"] = File(GateUsers),
                                   !["schools"] = File(schools),
                                   !["requests"] = File(ViewRequests),
                                   !["stock_kimonos"] = File(ViewStock)]
    /\ remote = IF supabase
                THEN [EmptyRemote EXCEPT !["requests"] =
                        UpsertRows("requests", <<>>,
                                   Shape("requests", ViewRequests), "id", TRUE)]
                ELSE EmptyRemote
    /\ uuid_ctr = 0
    /\ \E c \in {<<"PS1724", "PS1724">>, <<"PS1", "pw1">>, <<"PS12", "pw2">>} :
         session = SessionOf(authenticate(files, c[1], c[2]))
    /\ pushed = NoPushes
    /\ last = [op |-> "init"]
    /\ steps = MaxSteps - MaxWrites

NextView ==
    \/ KimonoStock
    \/ ManageRequests
    \/ SaveChanges
    \/ StageDelete

SpecView == InitView /\ [][NextView]_vars

IsView == last.op \in {"kimono_stock", "manage_requests"}

\* the ids of the schools list_user_schools returns to the user
OwnSchoolIds(u, schools) ==
    {Str(sc["id"]) : sc \in Range(list_user_schools(u, schools))}

OfOwnSchool(r) ==
    /\ "school_id" \in DOMAIN r
    /\ Str(r["school_id"]) \in
          OwnSchoolIds(last.user, load_json(last.pre_files, "schools"))

\* C16: a Coach is shown, in Manage Requests and in Kimono Stock, exactly
\* the rows whose school_id is the id of a school list_user_schools returns
\* for them (those of the selected school when a school is selected); the
\* rows a Coach edits or stages for deletion are among them; an Admin is
\* shown all rows.
C16_CoachScopedToOwnSchools ==
    /\ (IsView /\ last.user["credential"] = "Admin" /\ last.selected = Null)
          => last.shown = last.rows
    /\ (IsView /\ last.user["credential"] = "Coach") =>
          last.shown =
             SelectSeq(last.rows,
                LAMBDA r : /\ OfOwnSchool(r)
                           /\ last.selected # Null
                                 => Str(r["school_id"]) = last.selected)
    /\ (last.op = "save_changes" /\ last.user["credential"] = "Coach") =>
          \A i \in DOMAIN last.written :
             last.written[i] \notin Range(last.rows)
                => \E r \in Range(last.rows) :
                      r["id"] = last.written[i]["id"] /\ OfOwnSchool(r)
    /\ (last.op = "stage_delete" /\ last.user["credential"] = "Coach") =>
          \A id \in Range(last.staged) :
             \A r \in Range(last.pending) : r["id"] = id => OfOwnSchool(r)

C16_Witness ==
    /\ last.op = "kimono_stock"
    /\ last.user["ps_number"] = "PS12"
    /\ last.user["credential"] = "Coach"
    /\ Len(last.rows) = 4
    /\ Len(last.shown) = 1
    /\ last.shown[1]["id"] = "k3"

(***************************************************************************)
(* Properties of Admin Users save                                          *)
(***************************************************************************)
IsUsersSave == last.op = "users_save"

\* the save left the local users and the remote users and coaches alone
UsersUntouched ==
    /\ files["users"] = last.pre_files["users"]
    /\ remote["users"] = last.pre_remote["users"]
    /\ remote["coaches"] = last.pre_remote["coaches"]

\* what a save that did not abort leaves in the local users collection
UsersWellFormed ==
    LET users == files["users"].data
    IN /\ \A i, j \in DOMAIN users :
            i # j => users[i]["ps_number"] # users[j]["ps_number"]
       /\ \A i \in DOMAIN users :
            /\ MatchesPs(users[i]["ps_number"])
            /\ users[i]["credential"] \in {"Admin", "Coach"}

\* C17 as stated: a grid holding a ps_number that does not match
\* ^PS<digits>$, or the same ps_number twice, aborts the save and leaves the
\* local users and the remote users and coaches unchanged; a save that does
\* not abort leaves well-formed local users.
C17_AbortOnBadPsNumber ==
    IsUsersSave =>
       LET g == last.grid
       IN /\ ((\E i \in DOMAIN g : ~MatchesPs(g[i]["ps_number"]))
               \/ (\E i, j \in DOMAIN g :
                      i # j /\ g[i]["ps_number"] = g[j]["ps_number"]))
                => (last.aborted /\ UsersUntouched)
          /\ ~last.aborted => UsersWellFormed

\* C17 amended: the save aborts exactly when, after strip and upper-casing,
\* a non-empty ps_number of the grid does not match ^PS<digits>$ or appears
\* twice; rows with an empty ps_number are dropped. An aborting save leaves
\* the local users and the remote users and coaches unchanged; a save that
\* does not abort leaves well-formed local users.
C17_AbortOnBadNormalizedPs ==
    IsUsersSave =>
       LET g == last.grid
           norm(i) == UpperStrip(Str(g[i]["ps_number"]))
           bad == \E i \in DOMAIN g : norm(i) # "" /\ ~MatchesPs(norm(i))
           twice == \E i, j \in DOMAIN g :
                       i # j /\ norm(i) # "" /\ norm(i) = norm(j)
       IN /\ last.aborted <=> (bad \/ twice)
          /\ last.aborted => UsersUntouched
          /\ ~last.aborted => UsersWellFormed

\* an aborted save for a duplicate that only shows after normalisation, and
\* a completed save that normalised a typed ps_number
C17_Witness ==
    /\ IsUsersSave
    /\ \/ /\ last.aborted
          /\ \E i \in DOMAIN last.grid : last.grid[i]["ps_number"] = "ps1"
       \/ /\ ~last.aborted
          /\ \E i \in DOMAIN last.grid : last.grid[i]["ps_number"] = " ps12 "
          /\ \E i \in DOMAIN files["users"].data :
                files["users"].data[i]["ps_number"] = "PS12"

(***************************************************************************)
(* Properties of the pull pass on its own                                  *)
(***************************************************************************)
\* the remote rows of table t with only the allowed fields of t
Projected(t) ==
    [i \in DOMAIN remote[t] |-> Restrict(remote[t][i], allowed_fields[t])]

\* C18: after a pull, the local file of every table whose fetch succeeded
\* holds exactly the remote rows projected to the table's allowed fields,
\* the local file of every table whose fetch failed is as it was, every
\* table had its fetch issued, and the counters count the two kinds.
C18_PullOverwritesPerTable ==
    IsPull =>
       /\ \A t \in TableSet :
             /\ Issued(t, "select")
             /\ Called(t, "select", TRUE) => files[t] = File(Projected(t))
             /\ Called(t, "select", FALSE) => files[t] = last.pre_files[t]
       /\ last.pulled = Cardinality({t \in TableSet : Called(t, "select", TRUE)})
       /\ last.errors = Cardinality({t \in TableSet : Called(t, "select", FALSE)})
       /\ Len(last.calls) = Cardinality(TableSet)

\* a pull in which the fetch of one table failed, a later table was
\* overwritten with remote rows, and local rows that are not in the remote
\* were dropped
C18_Witness ==
    /\ IsPull
    /\ last.errors = 1
    /\ last.pulled = 4
    /\ \E t \in TableSet :
          /\ Called(t, "select", TRUE)
          /\ last.pre_files[t].data # files[t].data
    /\ \E t \in TableSet :
          /\ Called(t, "select", TRUE)
          /\ remote[t] # <<>>
          /\ \E i \in DOMAIN LocalTables :
                /\ LocalTables[i] = t
                /\ \E j \in 1..(i - 1) : Called(LocalTables[j], "select", FALSE)

(***************************************************************************)
(* Properties of the reported counts                                       *)
(***************************************************************************)
\* the synced count the handler reports
ReportedSynced ==
    IF last.op = "persist" THEN last.result.synced ELSE last.synced

\* C19: every write path that reports a synced count reports the number of
\* records whose remote upsert succeeded: the size of the payload when the
\* upsert was made and did not raise, and 0 when it raised or was not made.
C19_SyncedCountsRemoteSuccess ==
    (IsWritePath /\ ~Get(last, "aborted", FALSE)) =>
       ReportedSynced = IF last.upsert_ok THEN Len(last.payload) ELSE 0

(***************************************************************************)
(* Submit Request and Data Sync in one Admin session                       *)
(***************************************************************************)
InitSubmit ==
    /\ supabase \in BOOLEAN
    /\ files = SeedFiles
    /\ remote = EmptyRemote
    /\ uuid_ctr = 0
    /\ session = SessionOf(Admin)
    /\ pushed = NoPushes
    /\ last = [op |-> "init"]
    /\ steps = 0

NextSubmit ==
    \/ AddItem
    \/ SubmitRequest
    \/ SyncButton
    \/ ForceUpsertAll

SpecSubmit == InitSubmit /\ [][NextSubmit]_vars

IsSubmitPath == last.op \in {"add_item", "submit"} /\ ~last.aborted

\* C20: a persist from Submit Request flags its ids as unsynced exactly when
\* it returned an error and unflags them when it did not, and after a manual
\* sync whose upsert of requests succeeded no request that the remote now
\* holds is still flagged.
C20_UnsyncedUntilSyncSucceeds ==
    /\ IsSubmitPath =>
          session["unsynced_request_ids"] =
             IF last.result.error # Null
             THEN last.pre_session["unsynced_request_ids"] \cup last.ids
             ELSE last.pre_session["unsynced_request_ids"] \ last.ids
    /\ (IsPush /\ Called("requests", "upsert", TRUE)) =>
          \A id \in session["unsynced_request_ids"] :
             \A q \in Range(remote["requests"]) : q["id"] # id

(***************************************************************************)
(* Two sessions running persist_requests at the same time                  *)
(***************************************************************************)
\* In this part `session` holds, for each of the two script runs, the frame
\* of its persist_requests([record]) call: the position in the function and
\* its local variables. The steps are the function's accesses to the shared
\* file and to the remote: load_json, open(path, "w"), json.dump, upsert.
Procs == {"a", "b"}
Other(p) == IF p = "a" THEN "b" ELSE "a"

RaceRecord(id, sid) ==
    [id |-> id, school_id |-> sid, category |-> "c1", material |-> "sc it",
     quantity |-> "1", date |-> Now, ps_number |-> "PS1", status |-> "Pending"]

\* existing = load_json(...); the loop over records
PersistLoad(p) ==
    /\ session[p].pc = "idle"
    /\ \E existing \in {load_json(files, "requests")} :
       \E a \in {PersistLoop(<<session[p].record>>, 1,
                   [by_id |-> ExistingById(existing, Len(existing)),
                    payload |-> <<>>, saved |-> 0, ctr |-> uuid_ctr])} :
         /\ session' = [session EXCEPT ![p] =
               [pc |-> "loaded", record |-> session[p].record,
                existing |-> existing,
                during_save |-> session[Other(p)].pc = "opened",
                by_id |-> a.by_id, payload |-> a.payload, saved |-> a.saved]]
         /\ uuid_ctr' = a.ctr
    /\ last' = [op |-> "race_load", proc |-> p, writer |-> last.writer]
    /\ UNCHANGED <<supabase, files, remote, pushed, steps>>

\* save_json: open(path, "w")
PersistOpen(p) ==
    /\ session[p].pc = "loaded"
    /\ session' = [session EXCEPT ![p] =
          Put(Put(session[p], "pc", "opened"),
              "replaced", load_json(files, "requests"))]
    /\ files' = OpenForWrite(files, "requests")
    /\ last' = [op |-> "race_open", proc |-> p, writer |-> last.writer]
    /\ UNCHANGED <<supabase, remote, uuid_ctr, pushed, steps>>

\* save_json: json.dump(list(by_id.values())) and close
PersistDump(p) ==
    /\ session[p].pc = "opened"
    /\ session' = [session EXCEPT ![p] = Put(session[p], "pc", "dumped")]
    /\ files' = save_json(files, "requests", DictValues(session[p].by_id))
    /\ last' = [op |-> "race_dump", proc |-> p, writer |-> p]
    /\ UNCHANGED <<supabase, remote, uuid_ctr, pushed, steps>>

\* the upsert of the payload and the return value
PersistReturn(p) ==
    /\ session[p].pc = "dumped"
    /\ \E upsertFails \in BOOLEAN :
       \E ok \in {supabase /\ ~upsertFails} :
         /\ remote' = IF ok
                      THEN [remote EXCEPT !["requests"] =
                              UpsertRows("requests", @, session[p].payload,
                                         "id", TRUE)]
                      ELSE remote
         /\ pushed' = IF ok THEN [pushed EXCEPT !["requests"] = NoPush]
                      ELSE pushed
         /\ session' = [session EXCEPT ![p] =
               Put(Put(session[p], "pc", "returned"),
                   "result",
                   [saved |-> session[p].saved,
                    synced |-> IF ok THEN Len(session[p].payload) ELSE 0,
                    error |-> persist_error(supabase, upsertFails)])]
    /\ last' = [op |-> "race_return", proc |-> p, writer |-> last.writer]
    /\ UNCHANGED <<supabase, files, uuid_ctr, steps>>

InitRace ==
    /\ supabase \in BOOLEAN
    /\ files \in {SeedFiles, [SeedFiles EXCEPT !["requests"] = File(<<>>)]}
    /\ remote = IF supabase /\ files = SeedFiles THEN SeededRemote
                ELSE EmptyRemote
    /\ uuid_ctr = 0
    /\ \E rb \in {RaceRecord("rb", "s2"), RaceRecord("ra", "s2"),
                  RaceRecord("r1", "s1")} :
         session = [p \in Procs |->
                      [pc |-> "idle",
                       record |-> IF p = "a" THEN RaceRecord("ra", "s1") ELSE rb]]
    /\ pushed = NoPushes
    /\ last = [op |-> "init", writer |-> Null]
    /\ steps = 0

NextRace ==
    \/ \E p \in Procs : PersistLoad(p)
    \/ \E p \in Procs : PersistOpen(p)
    \/ \E p \in Procs : PersistDump(p)
    \/ \E p \in Procs : PersistReturn(p)

SpecRace == InitRace /\ [][NextRace]_vars

BothReturned == \A p \in Procs : session[p].pc = "returned"

\* C21: with two unsynchronised persist_requests calls the file is the whole
\* collection of the call that wrote last: whenever a write has completed
\* and no write is under way, the file holds exactly the merged collection
\* of the last call that wrote, and nothing else of what the other call saved.
C21_LastWriterWins ==
    (last.writer # Null /\ Parses(files["requests"]))
       => files["requests"] = File(DictValues(session[last.writer].by_id))

\* both calls loaded, then both saved: the file is the second writer's
\* collection, the first writer's record is not in it, both returned saved=1
C21_Witness ==
    /\ BothReturned
    /\ \A p \in Procs : session[p].result.saved = 1
    /\ files["requests"] = File(DictValues(session["b"].by_id))
    /\ \A r \in Range(files["requests"].data) : r["id"] # "ra"
    /\ \E r \in Range(files["requests"].data) : r["id"] = "rb"
    /\ Len(session["a"].existing) = 3

\* C22: a load_json that runs while the other call is inside save_json
\* returns the complete collection the file held before that save or the
\* complete collection the save writes.
C22_SaveIsAtomic ==
    \A p \in Procs :
       (session[p].pc # "idle" /\ session[p].during_save) =>
          \/ session[p].existing = session[Other(p)].replaced
          \/ session[p].existing = DictValues(session[Other(p)].by_id)

(***************************************************************************)
(* Replace mode of the push pass against a remote that already holds rows  *)
(***************************************************************************)
\* rows of an earlier state of the local store, as the remote stores them
EarlierRemote ==
    [users |-> <<[ps_number |-> "PS9", password |-> "pw9",
                  credential |-> "Coach", name |-> Null]>>,
     schools |-> <<[id |-> "s9", nome |-> "Z", city |-> Null, coaches |-> <<>>]>>,
     materials |-> <<[category |-> "c9", subcategory |-> "sc", item |-> "it"]>>,
     requests |-> <<[id |-> "r9", school_id |-> "s9", category |-> "c9",
                     material |-> "sc it", quantity |-> "1", date |-> "d0",
                     ps_number |-> "PS9", status |-> "Pending"]>>,
     stock_kimonos |-> <<[id |-> "k9", school_id |-> "s9", project |-> "MOE",
                          type |-> "A1", size |-> "C0", quantity |-> "1"]>>,
     coaches |-> <<>>]

\* a users.json that holds a row without a PS number
LegacyUsersFiles ==
    [SeedFiles EXCEPT !["users"] =
        File(SeedUsers \o <<[ps_number |-> "", password |-> "pw0"]>>)]

InitReplace ==
    /\ supabase \in BOOLEAN
    /\ files \in {SeedFiles, LegacyUsersFiles}
    /\ remote \in {EmptyRemote, EarlierRemote}
    /\ uuid_ctr = 0
    /\ session = [user |-> Admin]
    /\ pushed = NoPushes
    /\ last = [op |-> "init"]
    \* the session has had all but MaxWrites of its script runs
    /\ steps = MaxSteps - MaxWrites

NextReplace == SyncButton \/ ForceUpsertAll \/ ReplaceRemoteWithLocal

SpecReplace == InitReplace /\ [][NextReplace]_vars

\* the remote rows are the shaped rows, one stored row per shaped row
HoldsExactly(rows, shaped) ==
    /\ Len(rows) = Len(shaped)
    /\ \A i \in DOMAIN shaped :
         \E j \in DOMAIN rows : Restrict(rows[j], DOMAIN shaped[i]) = shaped[i]
    /\ \A j \in DOMAIN rows :
         \E i \in DOMAIN shaped : Restrict(rows[j], DOMAIN shaped[i]) = shaped[i]

\* a replace pass in which no call on table t failed and t was upserted
ReplacedCleanly(t) ==
    /\ IsPush /\ last.force /\ last.replace
    /\ Called(t, "upsert", TRUE)
    /\ ~Called(t, "delete", FALSE)

\* C23: after a push with force and replace in which the clear and the upsert
\* of a table succeed, the remote table holds exactly the shaped local rows
\* of the table and no row it held before that is not in the local file,
\* for each of users, schools, materials, requests and stock_kimonos.
C23_ReplaceLeavesExactlyLocal ==
    \A t \in TableSet :
       ReplacedCleanly(t) =>
          LET shaped == Shape(t, last.pre_files[t].data)
          IN /\ HoldsExactly(remote[t], shaped)
             /\ \A r \in Range(last.pre_remote[t]) :
                  r \in Range(remote[t]) =>
                     \E i \in DOMAIN shaped :
                        Restrict(r, DOMAIN shaped[i]) = shaped[i]

\* tables the pass counted as synced: total_synced += 1 follows the upsert
CountedSynced == {t \in TableSet : Called(t, "upsert", TRUE)}

\* C24: a push pass with a configured remote shows its summary once, at the
\* end, and counts every table in at most one of synced, skipped and errors:
\* the three counters add up to at most five and no table counted as synced
\* is also counted as an error.
C24_CountersPartitionTables ==
    IsPush =>
       /\ last.summaries = 1
       /\ last.synced = Cardinality(CountedSynced)
       /\ last.synced + last.skipped + last.errors <= Len(LocalTables)
       /\ last.errors <= Cardinality(TableSet \ CountedSynced)

\* position of the first call (t, op, ok) of the pass, 0 when there is none
CallIndex(t, op, ok) ==
    LET at == {i \in DOMAIN last.calls : last.calls[i] = Call(t, op, ok)}
    IN IF at = {} THEN 0 ELSE CHOOSE i \in at : \A j \in at : i <= j

\* the shaped users of the pass that have a PS number
ShapedWithPs ==
    {r \in Range(Shape("users", last.pre_files["users"].data)) :
        Get(r, "ps_number", Null) \notin {Null, ""}}

C25_WitnessFailedMirror ==
    /\ IsPush /\ Called("coaches", "upsert", FALSE)
    /\ last.errors = 0
    /\ last.synced = 5
    /\ Len(remote["users"]) >= 2

(***************************************************************************)
(* Admin Users: staged deletion                                            *)
(***************************************************************************)
\* the remote after the seed users were pushed and mirrored
PushedUsersRemote ==
    [EmptyRemote EXCEPT
       !["users"] = UpsertRows("users", <<>>, Shape("users", SeedUsers),
                               "ps_number", TRUE),
       !["coaches"] = UpsertRows("coaches", <<>>,
                                 Mirrored(Shape("users", SeedUsers)),
                                 "ps_number", TRUE)]

\* the grids an Admin can tick rows in: the loaded one, or one PS number blanked
DeleteGrids(grid) ==
    {grid} \cup {[grid EXCEPT ![i]["ps_number"] = " "] : i \in DOMAIN grid}

\* to_delete_ps: the PS numbers of the ticked rows whose cell is not blank
RECURSIVE PickPs(_, _, _)
PickPs(grid, checked, n) ==
    IF n = 0 THEN <<>>
    ELSE IF n \in checked /\ Strip(Str(grid[n]["ps_number"])) # ""
         THEN Append(PickPs(grid, checked, n - 1), grid[n]["ps_number"])
         ELSE PickPs(grid, checked, n - 1)

\* "Delete Selected Users": the ticked rows are staged for confirmation
StageDeleteUsers ==
    /\ session.user["credential"] = "Admin"
    /\ steps < MaxActs
    /\ steps' = steps + 1
    /\ \E fs0 \in {Bootstrap(files)} :
       \E grid \in DeleteGrids(UserGrid(load_json(fs0, "users"))) :
       \E checked \in SUBSET (DOMAIN grid) :
       \E to_delete_ps \in {PickPs(grid, checked, Len(grid))} :
         /\ files' = fs0
         /\ session' = IF to_delete_ps = <<>> THEN session
                       ELSE Put(session, "confirm_delete_users", to_delete_ps)
         /\ last' = [op |-> "stage_delete_users", staged |-> to_delete_ps]
    /\ UNCHANGED <<supabase, remote, uuid_ctr, pushed>>

\* "Confirm Delete" for the staged PS numbers
ConfirmDeleteUsers ==
    /\ session.user["credential"] = "Admin"
    /\ SessionGet(session, "confirm_delete_users", <<>>) # <<>>
    /\ steps < MaxActs
    /\ steps' = steps + 1
    /\ \E usersFails \in BOOLEAN, coachesFails \in BOOLEAN :
       \E fs0 \in {Bootstrap(files)} :
       \E confirm_users \in {Range(session["confirm_delete_users"])} :
       \E kept \in {SelectSeq(load_json(fs0, "users"),
                      LAMBDA r : Get(r, "ps_number", Null) \notin confirm_users)} :
       \E usersOk \in {supabase /\ ~usersFails} :
       \E coachesOk \in {usersOk /\ ~coachesFails} :
         /\ files' = save_json(fs0, "users", kept)
         /\ remote' =
              [remote EXCEPT
                 !["users"] = IF usersOk
                              THEN DeleteIn(@, "ps_number", confirm_users) ELSE @,
                 !["coaches"] = IF coachesOk
                                THEN DeleteIn(@, "ps_number", confirm_users)
                                ELSE @]
         /\ pushed' = IF usersOk THEN [pushed EXCEPT !["users"] = NoPush]
                      ELSE pushed
         /\ session' = Put(session, "confirm_delete_users", <<>>)
         /\ last' = [op |-> "confirm_delete_users",
                     confirm_users |-> confirm_users,
                     configured |-> supabase,
                     users_ok |-> usersOk, coaches_ok |-> coachesOk,
                     warning |-> supabase /\ ~coachesOk,
                     deleted |-> Len(session["confirm_delete_users"]),
                     pre_files |-> fs0, pre_remote |-> remote]
    /\ UNCHANGED <<supabase, uuid_ctr>>

\* "Cancel" of the confirmation box
CancelDeleteUsers ==
    /\ session.user["credential"] = "Admin"
    /\ SessionGet(session, "confirm_delete_users", <<>>) # <<>>
    /\ steps < MaxActs
    /\ steps' = steps + 1
    /\ files' = Bootstrap(files)
    /\ session' = Put(session, "confirm_delete_users", <<>>)
    /\ last' = [op |-> "cancel_delete_users"]
    /\ UNCHANGED <<supabase, remote, uuid_ctr, pushed>>

InitUsers ==
    /\ supabase \in BOOLEAN
    /\ files = SeedFiles
    /\ remote = IF supabase THEN PushedUsersRemote ELSE EmptyRemote
    /\ uuid_ctr = 0
    /\ session = SessionOf(Admin)
    /\ pushed = NoPushes
    /\ last = [op |-> "init"]
    /\ steps = 0

NextUsers ==
    StageDeleteUsers \/ ConfirmDeleteUsers \/ CancelDeleteUsers \/ UsersSave

SpecUsers == InitUsers /\ [][NextUsers]_vars

IsConfirmDeleteUsers == last.op = "confirm_delete_users"

\* the table holds no row with one of the PS numbers
HoldsNone(rows, ps_numbers) ==
    \A i \in DOMAIN rows : Get(rows[i], "ps_number", Null) \notin ps_numbers

\* C26: after the Admin confirms the deletion of a set of users with the
\* remote reachable, none of the deleted ps_numbers is in local users,
\* remote users or remote coaches; if the remote delete from users fails,
\* the local deletion still holds and a warning is raised.
C26_DeletedEverywhere ==
    IsConfirmDeleteUsers =>
       /\ HoldsNone(files["users"].data, last.confirm_users)
       /\ (last.users_ok /\ last.coaches_ok) =>
             /\ HoldsNone(remote["users"], last.confirm_users)
             /\ HoldsNone(remote["coaches"], last.confirm_users)
       /\ (last.configured /\ ~last.users_ok) => last.warning

\* a user held by the local file, remote users and remote coaches was deleted
C26_Witness ==
    /\ IsConfirmDeleteUsers
    /\ last.users_ok /\ last.coaches_ok
    /\ "PS1" \in last.confirm_users
    /\ ~HoldsNone(last.pre_files["users"].data, {"PS1"})
    /\ ~HoldsNone(last.pre_remote["users"], {"PS1"})
    /\ ~HoldsNone(last.pre_remote["coaches"], {"PS1"})
    /\ Len(remote["users"]) = 1

(***************************************************************************)
(* Repeated forced pushes of an unchanged local store                      *)
(***************************************************************************)
InitTwice ==
    /\ supabase = TRUE
    /\ files = SeedFiles
    /\ remote = EmptyRemote
    /\ uuid_ctr = 0
    /\ session = [user |-> Admin]
    /\ pushed = NoPushes
    /\ last = [op |-> "init"]
    /\ steps = 0

NextTwice == ForceUpsertAll \/ PullButton

SpecTwice == InitTwice /\ [][NextTwice]_vars

\* table t was pushed by this forced pass and by the forced pass before it,
\* both without replace and with the same shaped rows
PushedTwice(t) ==
    /\ IsPush /\ last.force /\ ~last.replace
    /\ Called(t, "upsert", TRUE)
    /\ last.pre_pushed[t].ok
    /\ last.pre_pushed[t].force /\ ~last.pre_pushed[t].replace
    /\ last.pre_pushed[t].rows = pushed[t].rows

\* C27: materials is upserted without a conflict key, so the push appends:
\* the second of two forced passes (replace off) over the same local
\* materials adds every catalog row once more, leaving each row twice where
\* the first pass stored it once, while a keyed table keeps one row per key.
C27_MaterialsAppendOnly ==
    /\ PushedTwice("materials") =>
          /\ Len(remote["materials"])
                = Len(last.pre_pushed["materials"].after)
                     + Len(pushed["materials"].rows)
          /\ \A r \in Range(pushed["materials"].rows) :
                LET stored == StoredRow("materials", r, r, FALSE)
                IN Count(remote["materials"], stored)
                      = Count(last.pre_pushed["materials"].after, stored)
                           + Count(pushed["materials"].rows, r)
    /\ \A t \in KeyedTables :
          PushedTwice(t) =>
             /\ Len(remote[t]) = Len(last.pre_pushed[t].after)
             /\ \A i, j \in DOMAIN remote[t] :
                   remote[t][i][conflict_targets[t]]
                      = remote[t][j][conflict_targets[t]] => i = j

\* two forced passes from an empty remote: every catalog row is stored twice
\* and every keyed table holds one row per local row
C27_Witness ==
    /\ PushedTwice("materials")
    /\ Len(pushed["materials"].rows) > 0
    /\ \A r \in Range(pushed["materials"].rows) :
          Count(remote["materials"], StoredRow("materials", r, r, FALSE)) = 2
    /\ \A t \in KeyedTables :
          PushedTwice(t) /\ Len(remote[t]) = Len(pushed[t].rows)

IsStockNormalize == last.op = "normalize" /\ last.table = "stock_kimonos"

\* C28: ensure_stock_id_and_defaults writes the normalized collection to the
\* stock file whenever it changed a record (an id assigned, a missing
\* quantity defaulted, a quantity coerced to int or replaced by 0, a project
\* trimmed and upper-cased) and writes nothing when no record changed.
C28_StockPersistedWhenChanged ==
    IsStockNormalize =>
       /\ last.rows # last.input => files["stock_kimonos"] = File(last.rows)
       /\ last.rows = last.input => files = last.pre_files

(***************************************************************************)
(* Submit Request while the schools are being edited                       *)
(***************************************************************************)
InitBatch ==
    /\ supabase \in BOOLEAN
    /\ files = SeedFiles
    /\ remote = EmptyRemote
    /\ uuid_ctr = 0
    /\ session = SessionOf(Admin)
    /\ pushed = NoPushes
    /\ last = [op |-> "init"]
    /\ steps = 0

NextBatch == AddItem \/ SubmitRequest \/ SchoolsSave

SpecBatch == InitBatch /\ [][NextBatch]_vars

IsSubmit == last.op = "submit"

\* the collection holds a request with the id of `it`
HoldsItem(rows, it) ==
    \E i \in DOMAIN rows : Get(rows[i], "id", Null) = it["id"]

\* C29: when the validation of Submit Request rejects a batch, the save is
\* aborted and no item of the batch is in the local or the remote requests;
\* every request the workflow stores names a school that exists when it is
\* stored.
C29_RejectedBatchNotStored ==
    /\ (IsSubmit /\ last.aborted) =>
          \A it \in Range(last.batch) :
             /\ ~HoldsItem(files["requests"].data, it)
             /\ ~HoldsItem(remote["requests"], it)
    /\ (last.op \in {"add_item", "submit"} /\ ~last.aborted) =>
          BatchErrors(last.batch, load_json(last.pre_files, "schools")) = {}

IsSchoolsSave == last.op = "schools_save"

\* C30: an Admin Schools save with a row whose id is empty aborts and leaves
\* the local and the remote schools unchanged; after every save that does
\* not abort, every stored school has a non-empty id, no two stored schools
\* share an id, and every coaches entry is an upper-case ^PS<digits>$ string.
C30_SchoolsSaveValidated ==
    IsSchoolsSave =>
       /\ (\E i \in DOMAIN last.grid :
              Strip(Str(Get(last.grid[i], "id", ""))) = "")
             => /\ last.aborted
                /\ files = last.pre_files
                /\ remote = last.pre_remote
       /\ ~last.aborted =>
             LET stored == files["schools"].data
             IN /\ \A i \in DOMAIN stored :
                      /\ Strip(Str(Get(stored[i], "id", ""))) # ""
                      /\ \A k \in DOMAIN stored[i]["coaches"] :
                            /\ MatchesPs(stored[i]["coaches"][k])
                            /\ UpperStrip(stored[i]["coaches"][k])
                                  = stored[i]["coaches"][k]
                /\ \A i, j \in DOMAIN stored :
                      stored[i]["id"] = stored[j]["id"] => i = j

(***************************************************************************)
(* Kimono Stock: "Save Stock Changes"                                      *)
(***************************************************************************)
\* the editable grid of the filtered rows: every column of the frame for
\* every row, a missing or None cell as "" after fillna("")
StockColumns(rows) ==
    IF rows = <<>> THEN {"school_id", "project", "type", "size", "quantity"}
    ELSE UNION {DOMAIN rows[i] : i \in DOMAIN rows}

StockGrid(rows) ==
    [i \in DOMAIN rows |-> [c \in StockColumns(rows) |-> Cell(rows[i], c)]]

\* the grids a user can submit from the loaded one (one cell edited at most;
\* the grid has a fixed number of rows and every column is editable)
StockGrids(grid) ==
    {grid}
    \cup {[grid EXCEPT ![i]["quantity"] = "3"] : i \in DOMAIN grid}
    \cup {[grid EXCEPT ![i]["school_id"] = v] :
            i \in DOMAIN grid, v \in {"s2", "s3", " "}}
    \cup {[grid EXCEPT ![i]["id"] = v] :
            i \in {k \in DOMAIN grid : "id" \in DOMAIN grid[k]},
            v \in {"k3", ""}}

\* rows (1-based) the validation loop reports
InvalidStockRows(recs) ==
    {i \in DOMAIN recs :
        \/ Strip(Str(Get(recs[i], "school_id", ""))) = ""
        \/ (Truthy(Get(recs[i], "quantity", Null))
               /\ ~IntParses(recs[i]["quantity"]))}

\* a record after the validation loop: quantity as int, project upper-cased
StockRec(r) ==
    LET q == Get(r, "quantity", Null)
        p == Get(r, "project", Null)
    IN Put(Put(r, "quantity", IF Truthy(q) THEN IntOf(q) ELSE "0"),
           "project", IF Truthy(p) THEN StripUpper(Str(p)) ELSE "")

\* d.update(r)
DictUpdate(old, r) ==
    [f \in (DOMAIN old) \cup (DOMAIN r) |-> IF f \in DOMAIN r THEN r[f] ELSE old[f]]

\* the merge loop over recs[1..n], started from the dict `start`
RECURSIVE MergeInto(_, _, _, _)
MergeInto(start, recs, ctr, n) ==
    IF n = 0 THEN [by_id |-> start, ctr |-> ctr]
    ELSE LET a == MergeInto(start, recs, ctr, n - 1)
             r == recs[n]
             rid == Get(r, "id", Null)
         IN IF Truthy(rid) /\ DictHas(a.by_id, rid)
            THEN [a EXCEPT !.by_id = DictPut(@, rid, DictUpdate(DictGet(@, rid), r))]
            ELSE IF Truthy(rid)
            THEN [a EXCEPT !.by_id = DictPut(@, rid, r)]
            ELSE [by_id |-> DictPut(a.by_id, Uuid(a.ctr + 1),
                                    Put(r, "id", Uuid(a.ctr + 1))),
                  ctr |-> a.ctr + 1]

\* variant: the saved collection is built from the grid alone
MergeStock_GridOnly(existing, recs, ctr) ==
    MergeInto(<<>>, recs, ctr, Len(recs))

\* "Merge back into full list: replace rows that match by id, otherwise append"
MergeStock(existing, recs, ctr) ==
    MergeInto(TruthyRowsById(existing, Len(existing)), recs, ctr, Len(recs))

\* "Save Stock Changes" on the grid of the chosen school
SaveStockChanges ==
    /\ session.user # NoUser
    /\ steps < MaxSteps
    /\ steps' = steps + 1
    /\ \E u \in {session.user}, fs0 \in {Bootstrap(files)} :
       \E v \in {KimonoView(fs0, u, uuid_ctr)} :
       \E selected_school_id \in v.school_options :
       \E filtered_rows \in {FilterStock(u, v.stock_rows, v.visible_schools,
                                         selected_school_id)} :
       \E edited \in StockGrids(StockGrid(filtered_rows)) :
       \E recs \in {[i \in DOMAIN edited |-> StockRec(edited[i])]} :
         IF InvalidStockRows(edited) # {}
         THEN /\ v.ctr <= MaxUuid
              /\ files' = v.files
              /\ uuid_ctr' = v.ctr
              /\ last' = [op |-> "stock_save", user |-> u, aborted |-> TRUE,
                          visible_schools |-> v.visible_schools,
                          shown |-> filtered_rows, recs |-> recs,
                          existing |-> load_json(v.files, "stock_kimonos"),
                          pre_files |-> v.files]
         ELSE \E existing \in {load_json(v.files, "stock_kimonos")} :
              \E m \in {MergeStock(existing, recs, v.ctr)} :
                /\ m.ctr <= MaxUuid
                /\ files' = save_json(v.files, "stock_kimonos",
                                      DictValues(m.by_id))
                /\ uuid_ctr' = m.ctr
                /\ last' = [op |-> "stock_save", user |-> u, aborted |-> FALSE,
                            visible_schools |-> v.visible_schools,
                            shown |-> filtered_rows, recs |-> recs,
                            existing |-> existing,
                            pre_files |-> v.files]
    /\ UNCHANGED <<supabase, remote, session, pushed>>

NextStock == KimonoStock \/ SaveStockChanges

SpecStock == InitView /\ [][NextStock]_vars

IsStockSave == last.op = "stock_save"

\* the ids of the schools list_user_schools returned for the user of the save
SaverSchoolIds ==
    {Str(Get(last.visible_schools[i], "id", Null)) :
        i \in DOMAIN last.visible_schools}

\* C31: Save Stock Changes run by a Coach neither creates nor modifies a
\* stock row whose school_id, before or after the save, is outside the ids
\* of the schools list_user_schools returns for that coach.
C31_CoachStockWritesOwnSchools ==
    (IsStockSave /\ last.user["credential"] # "Admin") =>
       \A r \in Range(files["stock_kimonos"].data) :
          r \notin Range(last.existing) =>
             /\ Str(Get(r, "school_id", Null)) \in SaverSchoolIds
             /\ \A o \in Range(last.existing) :
                   Get(o, "id", Null) = Get(r, "id", Null) =>
                      Str(Get(o, "school_id", Null)) \in SaverSchoolIds

\* the ids of the rows of the edited grid
GridIds == {Get(last.recs[i], "id", Null) : i \in DOMAIN last.recs}

\* C38: Save Stock Changes merges by id into the full local collection: a
\* stock row that existed before the save and whose id is not the id of a
\* row of the edited grid is still present and unchanged afterwards, and no
\* two rows of the saved collection share an id.
C38_StockMergeKeepsOtherRows ==
    (IsStockSave /\ ~last.aborted) =>
       /\ \A r \in Range(last.existing) :
             Get(r, "id", Null) \notin GridIds =>
                r \in Range(files["stock_kimonos"].data)
       /\ \A i, j \in DOMAIN files["stock_kimonos"].data :
             files["stock_kimonos"].data[i]["id"]
                = files["stock_kimonos"].data[j]["id"] => i = j

\* a Coach saved an edited row while rows of schools the Coach cannot see,
\* and a row left out by the school selector, were in the collection
C38_Witness ==
    /\ IsStockSave /\ ~last.aborted
    /\ last.user["credential"] # "Admin"
    /\ last.recs # <<>>
    /\ Range(last.shown) \cap Range(files["stock_kimonos"].data) = {}
    /\ \E r \in Range(last.existing) :
          /\ Get(r, "id", Null) \notin GridIds
          /\ Str(Get(r, "school_id", Null)) \notin SaverSchoolIds
          /\ r \in Range(files["stock_kimonos"].data)
    /\ Len(files["stock_kimonos"].data) >= 4

\* the date the seeded request `id` was created with
CreatedDate(id) ==
    LET at == {i \in DOMAIN SeedRequests : SeedRequests[i]["id"] = id}
    IN SeedRequests[CHOOSE i \in at : TRUE]["date"]

\* every row of `rows` has the date its request was created with
DatesKept(rows) ==
    \A i \in DOMAIN rows :
       (\E k \in DOMAIN SeedRequests : SeedRequests[k]["id"] = Get(rows[i], "id", Null))
          => Get(rows[i], "date", Null) = CreatedDate(rows[i]["id"])

\* C32: the date of a request is fixed at creation: after any sequence of
\* Manage Requests saves and batch status updates, by an Admin or a Coach,
\* every request still in the collection has the date it was created with,
\* in the local collection, in the remote table and in the rows upserted.
C32_DateImmutable ==
    /\ DatesKept(files["requests"].data)
    /\ DatesKept(remote["requests"])
    /\ last.op \in {"save_changes", "batch_status"} => DatesKept(last.payload)

\* a Save Changes whose grid had its date cell edited wrote and upserted
\* the request
C32_Witness ==
    /\ last.op = "save_changes"
    /\ last.edit # NoEdit
    /\ last.edit.key = "date"
    /\ last.upsert_ok
    /\ last.payload # <<>>
    /\ \E r \in Range(files["requests"].data) :
          r["id"] = last.pending[last.edit.idx]["id"]

(***************************************************************************)
(* Admin Schools: staged deletion                                          *)
(***************************************************************************)
\* "Delete Selected Schools": the stripped ids of the ticked rows are staged
StageDeleteSchools ==
    /\ session.user["credential"] = "Admin"
    /\ steps < MaxActs
    /\ steps' = steps + 1
    /\ \E fs0 \in {Bootstrap(files)} :
       \E grid \in {SchoolGrid(load_json(fs0, "schools"))} :
       \E checked \in SUBSET (DOMAIN grid) :
       \E ids \in {{Strip(Str(grid[i]["id"])) : i \in checked} \ {""}} :
         /\ files' = fs0
         /\ session' = IF ids = {} THEN session
                       ELSE Put(session, "confirm_delete_schools", ids)
         /\ last' = [op |-> "stage_delete_schools", staged |-> ids]
    /\ UNCHANGED <<supabase, remote, uuid_ctr, pushed>>

\* "Confirm Delete" for the staged school ids
ConfirmDeleteSchools ==
    /\ session.user["credential"] = "Admin"
    /\ SessionGet(session, "confirm_delete_schools", {}) # {}
    /\ steps < MaxActs
    /\ steps' = steps + 1
    /\ \E deleteFails \in BOOLEAN :
       \E fs0 \in {Bootstrap(files)} :
       \E confirm_schools \in {session["confirm_delete_schools"]} :
       \E kept \in {SelectSeq(load_json(fs0, "schools"),
                      LAMBDA r : Strip(Str(Get(r, "id", ""))) \notin confirm_schools)} :
         /\ files' = save_json(fs0, "schools", kept)
         /\ remote' = IF supabase /\ ~deleteFails
                      THEN [remote EXCEPT !["schools"] =
                              DeleteIn(@, "id", confirm_schools)]
                      ELSE remote
         /\ pushed' = IF supabase /\ ~deleteFails
                      THEN [pushed EXCEPT !["schools"] = NoPush]
                      ELSE pushed
         /\ session' = Put(session, "confirm_delete_schools", {})
         /\ last' = [op |-> "confirm_delete_schools",
                     confirm_schools |-> confirm_schools,
                     delete_ok |-> supabase /\ ~deleteFails,
                     pre_files |-> fs0, pre_remote |-> remote]
    /\ UNCHANGED <<supabase, uuid_ctr>>

(***************************************************************************)
(* Every section of the application, a Coach and an Admin browser session  *)
(***************************************************************************)
\* the next interaction comes from the other browser session
SwitchUser ==
    /\ "other" \in DOMAIN session
    /\ session' = TwoSessions(session["other"],
                              [k \in (DOMAIN session) \ {"other"} |-> session[k]])
    /\ last' = [op |-> "switch"]
    /\ UNCHANGED <<supabase, files, remote, uuid_ctr, pushed, steps>>

\* the remote after the seed users and schools were pushed
PushedRemote ==
    [PushedUsersRemote EXCEPT
       !["schools"] = UpsertRows("schools", <<>>, Shape("schools", SeedSchools),
                                 "id", TRUE)]

\* the sessions have had all but MaxWrites of their script runs
InitRoles ==
    /\ supabase \in BOOLEAN
    /\ files = SeedFiles
    /\ remote \in (IF supabase THEN {PushedRemote, EmptyRemote}
                  ELSE {EmptyRemote})
    /\ uuid_ctr = 0
    /\ session = TwoSessions(SessionOf(Coach), SessionOf(Admin))
    /\ pushed = NoPushes
    /\ last = [op |-> "init"]
    /\ steps = MaxSteps - MaxWrites

NextRoles ==
    \/ AddItem
    \/ SubmitRequest
    \/ SaveChanges
    \/ BatchStatus
    \/ StageDelete
    \/ ConfirmDelete
    \/ KimonoStock
    \/ SaveStockChanges
    \/ SchoolsSave
    \/ StageDeleteSchools
    \/ ConfirmDeleteSchools
    \/ UsersSave
    \/ StageDeleteUsers
    \/ ConfirmDeleteUsers
    \/ SyncButton
    \/ PullButton
    \/ SwitchUser

SpecRoles == InitRoles /\ [][NextRoles]_vars

\* C33: a session whose credential is not Admin cannot run a users save or
\* delete, a schools save or delete, a push or a pull: a step taken by a
\* Coach session leaves the local users and schools collections (as the
\* next script run loads them) and the remote users, coaches and schools
\* tables unchanged.
C33_CoachLeavesAdminData ==
    [][session.user["credential"] # "Admin" =>
          /\ load_json(Bootstrap(files'), "users")
                = load_json(Bootstrap(files), "users")
          /\ load_json(Bootstrap(files'), "schools")
                = load_json(Bootstrap(files), "schools")
          /\ remote'["users"] = remote["users"]
          /\ remote'["coaches"] = remote["coaches"]
          /\ remote'["schools"] = remote["schools"]]_vars

\* a Coach session wrote a request and stock rows while the remote holds
\* users, coaches and schools
C33_Witness ==
    /\ last.op \in {"add_item", "stock_save", "save_changes"}
    /\ last.user["credential"] = "Coach"
    /\ supabase
    /\ remote["users"] # <<>> /\ remote["coaches"] # <<>>
    /\ remote["schools"] # <<>>
    /\ files # SeedFiles

\* ids of the requests a browser session saved locally while their upsert
\* failed, in the active session and in the parked one
UnsyncedIds ==
    SessionGet(session, "unsynced_request_ids", {})
       \cup (IF "other" \in DOMAIN session
             THEN SessionGet(session["other"], "unsynced_request_ids", {})
             ELSE {})

\* C34: a request that persist_requests saved locally while its remote
\* upsert failed stays in the local requests collection through every later
\* read, until it is synced to the remote or deleted by a user.
C34_UnsyncedSurvivesReads ==
    \A id \in UnsyncedIds :
       (\A i \in DOMAIN remote["requests"] : remote["requests"][i]["id"] # id)
          => \E i \in DOMAIN files["requests"].data :
                Get(files["requests"].data[i], "id", Null) = id

(***************************************************************************)
(* Push sync and the login table                                           *)
(***************************************************************************)
\* what authenticate answers in the script run that follows the state
LoginAnswer(fs, c) == authenticate(Bootstrap(fs), c[1], c[2])

\* C35: a push pass leaves every login attempt with the answer it had
\* before the pass: for each (ps_number, password), authenticate in the
\* script run after the pass (which starts with the bootstrap defaults)
\* returns what it returned before the pass.
C35_PushKeepsLogins ==
    (last.op = "push" /\ last.configured) =>
       \A c \in Credentials :
          LoginAnswer(files, c) = authenticate(last.pre_files, c[1], c[2])

(***************************************************************************)
(* persist_requests(records) on lists of one or two records                *)
(***************************************************************************)
\* the lists the callers build: every item carries its own identifier (New
\* Request gives each item a uuid4), so no two passed records share one
PersistLists ==
    {<<a>> : a \in PersistInputs}
      \cup {<<a, b>> : <<a, b>> \in
              {p \in PersistInputs \X PersistInputs :
                  NeedsId(p[1]) \/ NeedsId(p[2])
                     \/ Strip(p[1]["id"]) # Strip(p[2]["id"])}}

PersistBatch ==
    /\ steps < MaxSteps
    /\ uuid_ctr + 2 <= Len(UuidPool)
    /\ steps' = steps + 1
    /\ \E records \in PersistLists, upsertFails \in BOOLEAN :
       \E fs0 \in {Bootstrap(files)} :
       \E res \in {persist_requests(fs0, remote, supabase, records, uuid_ctr,
                                    upsertFails)} :
            /\ files' = res.files
            /\ remote' = res.remote
            /\ uuid_ctr' = res.ctr
            /\ last' = [op |-> "persist", records |-> records,
                        configured |-> supabase,
                        upsert_raised |-> supabase /\ upsertFails,
                        result |-> res.result, payload |-> res.payload,
                        pre_files |-> fs0, pre_remote |-> remote]
    /\ UNCHANGED <<supabase, session, pushed>>

\* the session has had all but MaxWrites of its script runs
InitPersistList ==
    /\ supabase \in BOOLEAN
    /\ files \in RequestFiles
    /\ remote \in {EmptyRemote, SeededRemote}
    /\ uuid_ctr = 0
    /\ session = [user |-> Coach]
    /\ pushed = NoPushes
    /\ last = [op |-> "init"]
    /\ steps = MaxSteps - MaxWrites

NextPersistList == PersistBatch

SpecPersistList == InitPersistList /\ [][NextPersistList]_vars

\* identifiers of the rows a file held
IdsOf(rows) == {Get(rows[i], "id", Null) : i \in DOMAIN rows}

\* the stored row w is the passed record rec with its identifier and defaults
StoredAs(w, rec, preIds) ==
    /\ IF NeedsId(rec)
       THEN Get(w, "id", Null) \notin preIds \cup {Null, ""}
       ELSE Get(w, "id", Null) = Strip(rec["id"])
    /\ Get(w, "status", Null) = Get(rec, "status", "Pending")
    /\ Get(w, "ps_number", Null) = Get(rec, "ps_number", "unknown")
    /\ \A k \in DOMAIN rec \ {"id", "quantity"} : Get(w, k, Null) = rec[k]

\* C36: after persist_requests with a non-empty list, the local requests
\* hold no two records with the same id and no record with an empty id;
\* every passed record is stored in a row of its own, under its id or under
\* a fresh one when it had none or an empty one, with status Pending and
\* ps_number 'unknown' where it had none; saved is the number of records
\* passed.
C36_PersistStoresEveryRecord ==
    last.op = "persist" =>
       LET written == load_json(files, "requests")
           preIds == IdsOf(load_json(last.pre_files, "requests"))
       IN /\ \A i, j \in DOMAIN written :
                i # j => Get(written[i], "id", Null) # Get(written[j], "id", Null)
          /\ \A i \in DOMAIN written : Get(written[i], "id", Null) \notin {Null, ""}
          /\ \E f \in [DOMAIN last.records -> DOMAIN written] :
                /\ \A m, n \in DOMAIN last.records : m # n => f[m] # f[n]
                /\ \A n \in DOMAIN last.records :
                      StoredAs(written[f[n]], last.records[n], preIds)
          /\ last.result.saved = Len(last.records)

\* two records, one without identifier, status and ps_number, were passed
\* while the file held a row without identifier
C36_Witness ==
    /\ last.op = "persist"
    /\ Len(last.records) = 2
    /\ \E n \in DOMAIN last.records :
          /\ NeedsId(last.records[n])
          /\ "status" \notin DOMAIN last.records[n]
          /\ "ps_number" \notin DOMAIN last.records[n]
    /\ Null \in IdsOf(load_json(last.pre_files, "requests"))
    /\ last.result.saved = 2

(***************************************************************************)
(* supa.py: the standalone push script                                     *)
(***************************************************************************)
supa_allowed_fields ==
    [users |-> {"ps_number", "password", "credential", "name"},
     schools |-> {"id", "nome", "city", "coaches"},
     materials |-> {"category", "subcategory", "item"},
     requests |-> {"id", "school_id", "category", "material", "quantity",
                   "date", "ps_number", "status"},
     stock_kimonos |-> {"id", "school_id", "project", "type", "size",
                        "quantity"}]

\* the conflict_targets dict of supa.py
supa_conflict_targets ==
    [users |-> "ps_number", schools |-> "id", requests |-> "id"]

\* shape_rows(table, rows)
shape_rows(t, rows) ==
    [i \in DOMAIN rows |->
        LET o == Restrict(rows[i], supa_allowed_fields[t])
        IN IF t = "requests" THEN CoerceQuantity(o) ELSE o]

\* the on_conflict argument an upsert of table t is given under `targets`
OnConflict(targets, t) == IF t \in DOMAIN targets THEN targets[t] ELSE "none"

supa_Start(fs, rem) ==
    [files |-> fs, remote |-> rem, first_time_sync |-> "unbound",
     calls |-> <<>>, skipped |-> {},
     shaped |-> [t \in Range(LocalTables) |-> NoPush],
     keys |-> [t \in Range(LocalTables) |-> "none"]]

\* after the upsert: first-sync cleanup, then the users mirror
supa_AfterUpsert(a, t, shaped, F) ==
    IF a.first_time_sync = "unbound"
    THEN a      \* NameError, caught by "Error upserting"
    ELSE
      LET removeOk == <<t, "remove">> \notin F
          a1 == IF a.first_time_sync = "true"
                THEN [a EXCEPT
                        !.files = IF removeOk THEN [@ EXCEPT ![t] = Missing] ELSE @,
                        !.calls = Append(@, Call(t, "remove", removeOk))]
                ELSE a
          mirrored == Mirrored(shaped)
          mirrorOk == <<t, "mirror">> \notin F
      IN IF t = "users" /\ mirrored # <<>>
         THEN [a1 EXCEPT
                 !.remote = IF mirrorOk
                            THEN [@ EXCEPT !["coaches"] =
                                    UpsertRows("coaches", @, mirrored, "ps_number", TRUE)]
                            ELSE @,
                 !.calls = Append(@, Call("coaches", "upsert", mirrorOk))]
         ELSE a1

\* one iteration of `for file_name in files`
supa_Table(a, t, F) ==
    IF ~a.files[t].exists
    THEN a      \* "File not found": continue
    ELSE
      LET checkOk == <<t, "check">> \notin F
          existing_count == IF Len(a.remote[t]) > 0 THEN 1 ELSE 0
          a1 == [a EXCEPT
                   !.calls = Append(@, Call(t, "select", checkOk)),
                   !.first_time_sync =
                      IF ~checkOk THEN @
                      ELSE IF existing_count = 0 THEN "true" ELSE "false"]
          shaped == shape_rows(t, a.files[t].data)
          keyed == t \in DOMAIN supa_conflict_targets
          key == IF keyed THEN supa_conflict_targets[t] ELSE Null
          upsertOk == <<t, "upsert">> \notin F
      IN IF checkOk /\ existing_count > 0
         THEN [a1 EXCEPT !.skipped = @ \cup {t}]
         ELSE IF upsertOk
         THEN supa_AfterUpsert(
                [a1 EXCEPT
                   !.remote = [@ EXCEPT ![t] = UpsertRows(t, @, shaped, key, keyed)],
                   !.calls = Append(@, Call(t, "upsert", TRUE)),
                   !.shaped = [@ EXCEPT ![t] = [ok |-> TRUE, rows |-> shaped]],
                   !.keys = [@ EXCEPT ![t] = OnConflict(supa_conflict_targets, t)]],
                t, shaped, F)
         ELSE [a1 EXCEPT !.calls = Append(@, Call(t, "upsert", FALSE))]

RECURSIVE supa_Loop(_, _, _)
supa_Loop(a, i, F) ==
    IF i > Len(LocalTables) THEN a
    ELSE supa_Loop(supa_Table(a, LocalTables[i], F), i + 1, F)

\* the whole script
supa_main(fs, rem, F) == supa_Loop(supa_Start(fs, rem), 1, F)

\* `python supa.py` run from the application directory
RunSupa ==
    /\ steps < MaxSteps
    /\ steps' = steps + 1
    /\ \E F \in FaultSets(PushPoints) :
       \E res \in {supa_main(files, remote, F)} :
            /\ files' = res.files
            /\ remote' = res.remote
            /\ last' = [op |-> "supa", faults |-> F, calls |-> res.calls,
                        skipped |-> res.skipped, shaped |-> res.shaped,
                        keys |-> res.keys,
                        pre_files |-> files, pre_remote |-> remote]
    /\ UNCHANGED <<supabase, uuid_ctr, session, pushed>>

\* the script is run once, against a configured remote
InitSupa ==
    /\ supabase = TRUE
    /\ files \in {SeedFiles, LegacyUsersFiles, Bootstrap([t \in DOMAIN SeedFiles |-> Missing])}
    /\ remote \in {EmptyRemote, EarlierRemote, SeededRemote}
    /\ uuid_ctr = 0
    /\ session = [user |-> NoUser]
    /\ pushed = NoPushes
    /\ last = [op |-> "init"]
    /\ steps = MaxSteps - MaxWrites

NextSupa == RunSupa

SpecSupa == InitSupa /\ [][NextSupa]_vars

\* C37: a run of supa.py does to the local files and the remote what
\* sync_local_to_supabase(force=False, replace=False) does from the same
\* files and remote with the same calls failing: the same tables skipped,
\* the same shaped rows upserted with the same conflict key per table
\* (stock_kimonos included), the same local files removed after a
\* first-time sync and the same users mirrored into coaches.
C37_SupaMatchesPush ==
    last.op = "supa" =>
       LET app == sync_local_to_supabase(last.pre_files, last.pre_remote,
                                         FALSE, FALSE, last.faults)
       IN /\ last.calls = app.calls
          /\ Cardinality(last.skipped) = app.skipped
          /\ last.shaped = app.shaped
          /\ \A t \in Range(LocalTables) :
                last.shaped[t].ok => last.keys[t] = OnConflict(conflict_targets, t)
          /\ files = app.files
          /\ remote = app.remote

====
